---- MODULE Spec2Model ----
(***************************************************************************)
(* Speechly web API (src/web_api.py), production-mode branches: the        *)
(* in-memory session store (user_sessions, session_counters), the          *)
(* request handlers that read and write it, and the server-sent-event      *)
(* generator of /api/stream-feedback.                                      *)
(*                                                                         *)
(* Text is a sequence of one-character strings.  A filename               *)
(* f"{clean_topic}_{timestamp}_{n}.wav" is the triple                      *)
(* <<clean_topic, timestamp, n>>: the timestamp has a fixed width and n    *)
(* holds no underscore, so the formatted string determines the triple.    *)
(* An optional value (Python None or a value) is <<>> or <<value>>.        *)
(* Each request handler is one action; the stream generator is one action  *)
(* per run between two of its suspension points (its yields).              *)
(***************************************************************************)
EXTENDS Integers, Sequences, FiniteSets, TLC

VARIABLES user_sessions, session_counters, now, streams, resp, nextUid, cleared,
          threads, speech_history, returned, recorder, validation

vars == <<user_sessions, session_counters, now, streams, resp, nextUid, cleared,
          threads, speech_history, returned, recorder, validation>>

\* the state of the command-line program: its AudioRecorder with the capture
\* threads it started, and the run of ConfigValidator.validate_all
cli == <<recorder, validation>>

\* AudioRecorder.__init__: nothing is being recorded and nothing is captured;
\* capture lists the capture threads started so far, caller is the position
\* of the thread that calls the recorder's methods, chunks counts the chunks
\* read from the input stream
AudioRecorder ==
    [recording |-> FALSE, recorded_data |-> <<>>, capture |-> <<>>,
     caller |-> "idle", chunks |-> 0]

\* validate_all is not running: at is the check it is about to run (0 for
\* none), results and critical_failed are its two locals, outcomes lists how
\* the checks it has run ended
NoValidation ==
    [at |-> 0, results |-> <<>>, critical_failed |-> FALSE, outcomes |-> <<>>]

\* the state outside the sequential model of the web API: the request
\* threads that run interleaved; the file speech_history.json of
\* DataPersistence (<<>> while there is no file) and what the last call of
\* one of its methods returned
elsewhere == <<threads, speech_history, returned, recorder, validation>>

(* ------------------------------ bounds -------------------------------- *)
\* the capture threads one recorder starts, and the chunks they read
MaxCaptures == 2
MaxChunks == 3


\* successful submissions in one run
MaxSubmits == 2
\* streaming requests in one run
MaxStreams == 2
\* deltas with content the upstream produces, all streams together
MaxDeltas == 2
\* clock ticks (seconds) in one run
MaxTime == 1

(* ------------------------- program constants -------------------------- *)

SAMPLE_RATE == 44100
BYTES_PER_SAMPLE == 2
MIN_RECORDING_DURATION == 5
SHORT_RECORDING_THRESHOLD == 30
MIN_TRANSCRIPT_LEN == 3
TOPIC_MAX == 100
SPEECH_TYPE_MAX == 50
FILENAME_TOPIC_MAX == 20

(* ------------------------------- text --------------------------------- *)

\* \w of Python's re on the characters the inputs use
WordChars == {"a", "b", "h", "i", "e", "y", "t", "_", "1"}
\* \s
SpaceChars == {" ", "TAB"}

Min(a, b) == IF a <= b THEN a ELSE b

\* s[:n]
Take(s, n) == SubSeq(s, 1, Min(n, Len(s)))

RECURSIVE LStrip(_)
LStrip(s) == IF s # <<>> /\ Head(s) \in SpaceChars THEN LStrip(Tail(s)) ELSE s

RECURSIVE RStrip(_)
RStrip(s) ==
    IF s # <<>> /\ s[Len(s)] \in SpaceChars THEN RStrip(SubSeq(s, 1, Len(s) - 1)) ELSE s

\* str.strip()
Strip(s) == RStrip(LStrip(s))

IsKept(c) == c \in WordChars \cup SpaceChars \cup {"-"}

\* re.sub(r'[^\w\s-]', '', s)
ReSubDisallowed(s) == SelectSeq(s, IsKept)

\* s.replace(' ', '_')
ReplaceSpaces(s) == [i \in 1..Len(s) |-> IF s[i] = " " THEN "_" ELSE s[i]]

RECURSIVE Concat(_)
\* ''.join(ss)
Concat(ss) == IF ss = <<>> THEN <<>> ELSE Head(ss) \o Concat(Tail(ss))

(* --------------------------- session store ---------------------------- *)

\* a missing Session-ID header (None)
None == "None"

\* bool(session_id): None and '' are falsy
Truthy(session_id) == session_id \notin {None, ""}

Put(f, k, v) == [x \in DOMAIN f \cup {k} |-> IF x = k THEN v ELSE f[x]]

Remove(f, k) == [x \in DOMAIN f \ {k} |-> f[x]]

Store(us, sc) == [user_sessions |-> us, session_counters |-> sc]

\* mutant: the list is created and the counter is not
ensure_session_exists_listOnly(st, session_id) ==
    IF Truthy(session_id) /\ session_id \notin DOMAIN st.user_sessions
    THEN Store(Put(st.user_sessions, session_id, <<>>), st.session_counters)
    ELSE st

ensure_session_exists(st, session_id) ==
    IF Truthy(session_id) /\ session_id \notin DOMAIN st.user_sessions
    THEN Store(Put(st.user_sessions, session_id, <<>>),
               Put(st.session_counters, session_id, 0))
    ELSE st

\* the value of session_counters.get(session_id, 0) + 1
NextCounter(st, session_id) ==
    (IF session_id \in DOMAIN st.session_counters
     THEN st.session_counters[session_id] ELSE 0) + 1

\* returns the store after the call and the filename (<<>> for None)
generate_session_filename(st, session_id, topic, timestamp) ==
    IF ~Truthy(session_id)
    THEN [store |-> st, filename |-> <<>>]
    ELSE LET n == NextCounter(st, session_id)
             st1 == Store(st.user_sessions, Put(st.session_counters, session_id, n))
             clean_topic == ReplaceSpaces(Take(ReSubDisallowed(topic), FILENAME_TOPIC_MAX))
         IN [store |-> st1, filename |-> <<clean_topic, timestamp, st1.session_counters[session_id]>>]

\* mutant: the audio is stored without the 44 bytes of its WAV header
RecordingInfo_noHeader(filename, audio_data, topic, speech_type, transcription, feedback, t, uid) ==
    [filename |-> filename,
     audio_data |-> [audio_data EXCEPT !.len = IF @ >= 44 THEN @ - 44 ELSE 0],
     topic |-> topic,
     speech_type |-> speech_type, transcription |-> transcription,
     feedback |-> feedback, size |-> audio_data.len, created |-> t,
     modified |-> t, uid |-> uid]

\* the dict built by save_session_recording; uid stands for the identity of
\* the dict object
RecordingInfo(filename, audio_data, topic, speech_type, transcription, feedback, t, uid) ==
    [filename |-> filename, audio_data |-> audio_data, topic |-> topic,
     speech_type |-> speech_type, transcription |-> transcription,
     feedback |-> feedback, size |-> audio_data.len, created |-> t,
     modified |-> t, uid |-> uid]

\* mutant: the recordings the session already holds lose their feedback
save_session_recording_resetFeedback(st, session_id, recording_info) ==
    IF ~Truthy(session_id)
    THEN [store |-> st, ok |-> FALSE]
    ELSE LET st1 == ensure_session_exists(st, session_id)
             old == st1.user_sessions[session_id]
         IN [store |-> Store([st1.user_sessions EXCEPT
                                 ![session_id] =
                                     Append([i \in 1..Len(old) |->
                                                [old[i] EXCEPT !.feedback = <<>>]],
                                            recording_info)],
                             st1.session_counters),
             ok |-> TRUE]

save_session_recording(st, session_id, recording_info) ==
    IF ~Truthy(session_id)
    THEN [store |-> st, ok |-> FALSE]
    ELSE LET st1 == ensure_session_exists(st, session_id)
         IN [store |-> Store([st1.user_sessions EXCEPT
                                 ![session_id] = Append(@, recording_info)],
                             st1.session_counters),
             ok |-> TRUE]

Projection(rec) ==
    [filename |-> rec.filename, size |-> rec.size,
     created |-> rec.created, modified |-> rec.modified]

\* mutant: the newest recording is listed first
get_session_recordings_newestFirst(st, session_id) ==
    IF ~Truthy(session_id) \/ session_id \notin DOMAIN st.user_sessions
    THEN <<>>
    ELSE LET n == Len(st.user_sessions[session_id])
         IN [i \in 1..n |-> Projection(st.user_sessions[session_id][n + 1 - i])]

get_session_recordings(st, session_id) ==
    IF ~Truthy(session_id) \/ session_id \notin DOMAIN st.user_sessions
    THEN <<>>
    ELSE [i \in 1..Len(st.user_sessions[session_id]) |->
             Projection(st.user_sessions[session_id][i])]

\* index of the first element of recs named filename, 0 when there is none
FirstIndex(recs, filename) ==
    IF \E i \in 1..Len(recs) : recs[i].filename = filename
    THEN CHOOSE i \in 1..Len(recs) :
             /\ recs[i].filename = filename
             /\ \A j \in 1..(i - 1) : recs[j].filename # filename
    ELSE 0

\* mutant: the lookup goes through the recordings of every session
get_session_recording_data_anySession(st, session_id, filename) ==
    IF \E s \in DOMAIN st.user_sessions : FirstIndex(st.user_sessions[s], filename) # 0
    THEN LET s == CHOOSE s \in DOMAIN st.user_sessions :
                      FirstIndex(st.user_sessions[s], filename) # 0
         IN <<st.user_sessions[s][FirstIndex(st.user_sessions[s], filename)]>>
    ELSE <<>>

\* <<>> for None, <<rec>> for the first recording with that name
get_session_recording_data(st, session_id, filename) ==
    IF ~Truthy(session_id) \/ session_id \notin DOMAIN st.user_sessions
    THEN <<>>
    ELSE LET recs == st.user_sessions[session_id]
             i == FirstIndex(recs, filename)
         IN IF i = 0 THEN <<>> ELSE <<recs[i]>>

\* [rec for rec in recs if rec['filename'] != filename]
FilterOut(recs, filename) == SelectSeq(recs, LAMBDA rec : rec.filename # filename)

\* mutant: the name is removed from the lists of all sessions
delete_session_recording_everywhere(st, session_id, filename) ==
    IF ~Truthy(session_id) \/ session_id \notin DOMAIN st.user_sessions
    THEN [store |-> st, ok |-> FALSE]
    ELSE LET initial_count == Len(st.user_sessions[session_id])
             st1 == Store([s \in DOMAIN st.user_sessions |->
                              FilterOut(st.user_sessions[s], filename)],
                          st.session_counters)
         IN [store |-> st1, ok |-> Len(st1.user_sessions[session_id]) < initial_count]

delete_session_recording(st, session_id, filename) ==
    IF ~Truthy(session_id) \/ session_id \notin DOMAIN st.user_sessions
    THEN [store |-> st, ok |-> FALSE]
    ELSE LET initial_count == Len(st.user_sessions[session_id])
             st1 == Store([st.user_sessions EXCEPT
                              ![session_id] = FilterOut(@, filename)],
                          st.session_counters)
         IN [store |-> st1, ok |-> Len(st1.user_sessions[session_id]) < initial_count]

\* mutant: the recordings are dropped and the counter is kept
clear_all_session_recordings_keepCounter(st, session_id) ==
    IF ~Truthy(session_id)
    THEN [store |-> st, ok |-> FALSE]
    ELSE IF session_id \in DOMAIN st.user_sessions
         THEN [store |-> Store([st.user_sessions EXCEPT ![session_id] = <<>>],
                               st.session_counters),
               ok |-> TRUE]
         ELSE [store |-> st, ok |-> FALSE]

clear_all_session_recordings(st, session_id) ==
    IF ~Truthy(session_id)
    THEN [store |-> st, ok |-> FALSE]
    ELSE IF session_id \in DOMAIN st.user_sessions
         THEN [store |-> Store([st.user_sessions EXCEPT ![session_id] = <<>>],
                               Put(st.session_counters, session_id, 0)),
               ok |-> TRUE]
         ELSE [store |-> st, ok |-> FALSE]

cleanup_session(st, session_id) ==
    Store(IF session_id \in DOMAIN st.user_sessions
          THEN Remove(st.user_sessions, session_id) ELSE st.user_sessions,
          IF session_id \in DOMAIN st.session_counters
          THEN Remove(st.session_counters, session_id) ELSE st.session_counters)

(* ------------------------------ inputs -------------------------------- *)

SessionIds == {"s1", "s2"}

\* values of the Session-ID header: an identifier, absent, or empty
Headers == SessionIds \cup {None, ""}

TopicPlain == <<"a", " ", "b">>
TopicPadded == <<" ", "a", " ", "b", "!">>
TopicSymbols == <<"!">>
TopicBlank == <<" ">>
TypeTalk == <<"t">>
TypeSymbols == <<"?">>

\* the audio_data field: absent or empty, a string b64decode rejects, or a
\* string that decodes to the bytes named by tag, len bytes long
AudioMissing == [kind |-> "missing", bytes |-> [tag |-> "none", len |-> 0]]
AudioInvalid == [kind |-> "invalid", bytes |-> [tag |-> "none", len |-> 0]]
AudioOk(tag, len) == [kind |-> "ok", bytes |-> [tag |-> tag, len |-> len]]

BytesPerSecond == SAMPLE_RATE * BYTES_PER_SAMPLE

AudioAtMin == AudioOk("five", MIN_RECORDING_DURATION * BytesPerSecond)
AudioAboveMin == AudioOk("fivePlus", MIN_RECORDING_DURATION * BytesPerSecond + 1)
AudioLong == AudioOk("long", 25 * BytesPerSecond)
AudioEmpty == AudioOk("empty", 0)
\* the thresholds build_feedback_prompt sets for itself
PROMPT_MIN_RECORDING_DURATION == 5
PROMPT_SHORT_RECORDING_THRESHOLD == 20

\* audio of exactly the prompt's short threshold, and one byte less
AudioAtShort == AudioOk("twenty", PROMPT_SHORT_RECORDING_THRESHOLD * BytesPerSecond)
AudioBelowShort == AudioOk("twentyLess", PROMPT_SHORT_RECORDING_THRESHOLD * BytesPerSecond - 1)

\* the JSON body; language, is_repeat and previous_filename as they are when
\* the body does not carry them
Body(topic, speech_type, audio_data) ==
    [empty |-> FALSE, topic |-> topic, speech_type |-> speech_type,
     audio_data |-> audio_data, language |-> "en", is_repeat |-> FALSE,
     previous_filename |-> <<>>]

\* request.get_json() giving nothing
NoData ==
    [empty |-> TRUE, topic |-> <<>>, speech_type |-> <<>>, audio_data |-> AudioMissing,
     language |-> "en", is_repeat |-> FALSE, previous_filename |-> <<>>]

\* the body with a language field
InLanguage(data, language) == [data EXCEPT !.language = language]

\* the body flagged as a repeat of the recording named filename
AsRepeatOf(data, filename) ==
    [data EXCEPT !.is_repeat = TRUE, !.previous_filename = <<filename>>]

Bodies ==
    { NoData,
      Body(TopicPlain, TypeTalk, AudioAboveMin),
      Body(TopicPadded, TypeTalk, AudioLong),
      Body(TopicSymbols, TypeSymbols, AudioAboveMin),
      Body(<<>>, TypeTalk, AudioAboveMin),
      Body(TopicBlank, TypeTalk, AudioAboveMin),
      Body(TopicPlain, <<>>, AudioAboveMin),
      Body(TopicPlain, TypeTalk, AudioMissing),
      Body(TopicPlain, TypeTalk, AudioInvalid),
      Body(TopicPlain, TypeTalk, AudioAtMin),
      Body(TopicPlain, TypeTalk, AudioEmpty) }

\* what client.audio.transcriptions.create does: raises, or returns an
\* object whose text is None (<<>>) or a string (<<text>>)
TrRaises == [raises |-> TRUE, text |-> <<>>]
TrText(text) == [raises |-> FALSE, text |-> <<text>>]
TrNone == [raises |-> FALSE, text |-> <<>>]

Transcriptions ==
    { TrRaises, TrNone, TrText(<<>>), TrText(<<" ", "h", "i", " ">>),
      TrText(<<"h", "e", "y">>) }

(* ----------------------------- responses ------------------------------ *)

NoResult == <<>>

Response(op, code, success, error, result) ==
    [op |-> op, code |-> code, success |-> success, error |-> error, result |-> result]

ErrorResponse(op, code, error) == Response(op, code, FALSE, error, NoResult)

NoResponse == Response("none", 0, FALSE, "", NoResult)

\* @app.errorhandler(Exception): the answer to a request whose handler let an
\* exception out, with str(error) as its error
handle_error(op, error) == ErrorResponse(op, 500, error)

(* -------------------------- POST /api/record -------------------------- *)

\* duration = len(audio_bytes) / (44100 * 2), kept as a fraction
Duration(nbytes) == [num |-> nbytes, den |-> BytesPerSecond]

\* duration <= k, duration < k for an integer k
DurationLeq(d, k) == d.num <= k * d.den
DurationLt(d, k) == d.num < k * d.den

\* not transcription_text or len(transcription_text.strip()) < 3
Untranscribed(text) ==
    \/ text = <<>>
    \/ text[1] = <<>>
    \/ Len(Strip(text[1])) < MIN_TRANSCRIPT_LEN

\* mutant: duration < MIN_RECORDING_DURATION
TooShort_strict(duration) == DurationLt(duration, MIN_RECORDING_DURATION)

\* duration <= MIN_RECORDING_DURATION
TooShort(duration) == DurationLeq(duration, MIN_RECORDING_DURATION)

ScoreType(duration) ==
    IF DurationLt(duration, SHORT_RECORDING_THRESHOLD) THEN "short" ELSE "full"

\* the part of process_recording after the duration check: name the
\* recording, store it, build the handle
StoreAndReturn(st, session_id, topic, speech_type, audio_bytes, text, duration, t, uid) ==
    LET g == generate_session_filename(st, session_id, topic, t)
    IN IF g.filename = <<>>
       THEN [store |-> g.store,
             resp |-> ErrorResponse("record", 500, "Failed to generate filename")]
       ELSE LET s == save_session_recording(g.store, session_id,
                         RecordingInfo(g.filename, audio_bytes, topic, speech_type,
                                       text, <<>>, t, uid))
            IN [store |-> s.store,
                resp |-> Response("record", 200, TRUE, "",
                           <<[filename |-> g.filename, transcription |-> text,
                              topic |-> topic, speech_type |-> speech_type,
                              score_type |-> ScoreType(duration),
                              stream_url |-> <<session_id, g.filename>>]>>)]

\* mutant: the filename is generated before the duration is checked
TranscribeAndStore_nameFirst(st, session_id, topic, speech_type, audio_bytes, tr, t, uid) ==
    IF tr.raises
    THEN [store |-> st, resp |-> ErrorResponse("record", 500, "exception")]
    ELSE IF Untranscribed(tr.text)
    THEN [store |-> st, resp |-> ErrorResponse("record", 400, "Could not transcribe audio")]
    ELSE LET duration == Duration(audio_bytes.len)
             g == generate_session_filename(st, session_id, topic, t)
         IN IF TooShort(duration)
            THEN [store |-> g.store,
                  resp |-> ErrorResponse("record", 400, "Speech was too short")]
            ELSE StoreAndReturn(st, session_id, topic, speech_type, audio_bytes,
                                tr.text[1], duration, t, uid)

\* the part of process_recording after the audio was decoded
TranscribeAndStore(st, session_id, topic, speech_type, audio_bytes, tr, t, uid) ==
    IF tr.raises
    THEN [store |-> st, resp |-> ErrorResponse("record", 500, "exception")]
    ELSE IF Untranscribed(tr.text)
    THEN [store |-> st, resp |-> ErrorResponse("record", 400, "Could not transcribe audio")]
    ELSE LET duration == Duration(audio_bytes.len)
         IN IF TooShort(duration)
            THEN [store |-> st,
                  resp |-> ErrorResponse("record", 400, "Speech was too short")]
            ELSE StoreAndReturn(st, session_id, topic, speech_type, audio_bytes,
                                tr.text[1], duration, t, uid)

valid_languages ==
    {"en", "es", "fr", "de", "it", "pt", "ru", "ja", "ko", "zh", "ar", "hi", "tr",
     "nl", "bn"}

\* mutant: the language is used as the body gives it
RequestLanguage_asGiven(language) == language

\* if language not in valid_languages: language = 'en'
RequestLanguage(language) == IF language \in valid_languages THEN language ELSE "en"

\* the language argument of the transcription call
WhisperLanguage(language) == IF language # "zh" THEN language ELSE "zh-CN"

\* what a request does: the store and the response after it, and in
\* transcribed the language of the transcription call it made, if any
Outcome(r, transcribed) == [store |-> r.store, resp |-> r.resp, transcribed |-> transcribed]

\* is_repeat and previous_filename are read from the body and not used
process_recording(st, session_id, data, tr, t, uid) ==
    IF ~Truthy(session_id)
    THEN Outcome([store |-> st,
                  resp |-> ErrorResponse("record", 400, "No session ID provided")], <<>>)
    ELSE IF data.empty
    THEN Outcome([store |-> st,
                  resp |-> ErrorResponse("record", 400, "No data provided")], <<>>)
    ELSE LET topic == Strip(data.topic)
             speech_type == Strip(data.speech_type)
         IN IF topic = <<>> \/ speech_type = <<>> \/ data.audio_data.kind = "missing"
            THEN Outcome([store |-> st,
                          resp |-> ErrorResponse("record", 400, "Missing required fields")],
                         <<>>)
            ELSE LET topic1 == Take(ReSubDisallowed(topic), TOPIC_MAX)
                     speech_type1 == Take(ReSubDisallowed(speech_type), SPEECH_TYPE_MAX)
                     language == RequestLanguage(data.language)
                 IN IF data.audio_data.kind = "invalid"
                    THEN Outcome([store |-> st,
                                  resp |-> ErrorResponse("record", 400,
                                                         "Invalid audio data")], <<>>)
                    ELSE Outcome(TranscribeAndStore(st, session_id, topic1, speech_type1,
                                                    data.audio_data.bytes, tr, t, uid),
                                 <<WhisperLanguage(language)>>)

(* ------------------------- the other handlers ------------------------- *)

\* POST /api/session/new, session_id being the uuid4 drawn
create_new_session(st, session_id) ==
    [store |-> ensure_session_exists(st, session_id),
     resp |-> Response("new", 200, TRUE, "", <<[session_id |-> session_id]>>)]

\* POST /api/session/cleanup
cleanup_user_session(st, session_id) ==
    IF ~Truthy(session_id)
    THEN [store |-> st, resp |-> ErrorResponse("cleanup", 400, "No session ID provided")]
    ELSE [store |-> cleanup_session(st, session_id),
          resp |-> Response("cleanup", 200, TRUE, "", NoResult)]

\* DELETE /api/recordings/<filename>
delete_recording(st, session_id, filename) ==
    LET d == delete_session_recording(st, session_id, filename)
    IN [store |-> d.store,
        resp |-> IF d.ok
                 THEN Response("delete", 200, TRUE, "", <<[filename |-> filename]>>)
                 ELSE ErrorResponse("delete", 404, "Recording not found")]

\* DELETE /api/recordings and DELETE /api/session
clear_all_recordings(st, session_id) ==
    LET c == clear_all_session_recordings(st, session_id)
    IN [store |-> c.store,
        resp |-> IF c.ok
                 THEN Response("clear", 200, TRUE, "", NoResult)
                 ELSE ErrorResponse("clear", 404, "Session not found")]

\* GET /api/recordings
list_recordings(st, session_id) ==
    [store |-> st,
     resp |-> Response("list", 200, TRUE, "",
                       <<[recordings |-> get_session_recordings(st, session_id)]>>)]

\* GET /api/recordings/<filename>: the audio of the recording; when there is
\* none the branch reads a name that is not bound, and handle_error answers
\* the NameError
\* raised is the exception that leaves the handler, if one does
get_recording(st, session_id, filename) ==
    LET recording == get_session_recording_data(st, session_id, filename)
    IN IF recording = <<>>
       THEN [store |-> st,
             resp |-> handle_error("get", "name 'e' is not defined"),
             raised |-> <<"NameError">>]
       ELSE [store |-> st,
             resp |-> Response("get", 200, TRUE, "",
                               <<[audio_data |-> recording[1].audio_data]>>),
             raised |-> <<>>]

(* ------------------- GET /api/stream-feedback/... --------------------- *)

\* one server-sent event: {'content', 'type': 'chunk'}, {'type': 'complete',
\* 'total_chunks'} or {'error'}
Event(type, content, total_chunks) ==
    [type |-> type, content |-> content, total_chunks |-> total_chunks]

ChunkEvent(content) == Event("chunk", content, 0)
CompleteEvent(n) == Event("complete", <<>>, n)
ErrorEvent == Event("error", <<>>, 0)

\* chunk.choices[0].delta.content of one upstream delta: None or text
Deltas == { <<>>, << <<"x">> >>, << <<"y">> >> }

\* a generator of generate_feedback with its locals; found is whether its
\* local recording is not None, calls counts its chat.completions.create
\* calls, and pc is where it stands: "new" (not started), "iterating" (in the
\* for loop), "complete" (suspended at the yield of the complete event),
\* "done" (returned), "closed" (GeneratorExit thrown into it at a yield);
\* upstream is what the iterator stream has handed out so far, the deltas
\* without content left out
\* language is request.args.get('language', 'en'), and prompt the
\* feedback_prompt once it is built
NewStream(session_id, filename, language) ==
    [session_id |-> session_id, filename |-> filename, pc |-> "new", found |-> FALSE,
     events |-> <<>>, full_feedback |-> <<>>, chunk_count |-> 0, calls |-> 0,
     upstream |-> <<>>, language |-> language, prompt |-> <<>>]

\* language_names.get(language, 'English')
language_names ==
    [l \in {"en", "es", "fr", "de", "it", "pt", "ru", "ja", "ko", "zh", "ar", "hi",
            "tr", "nl", "bn"} |->
        CASE l = "en" -> "English" [] l = "es" -> "Spanish" [] l = "fr" -> "French"
          [] l = "de" -> "German" [] l = "it" -> "Italian" [] l = "pt" -> "Portuguese"
          [] l = "ru" -> "Russian" [] l = "ja" -> "Japanese" [] l = "ko" -> "Korean"
          [] l = "zh" -> "Chinese" [] l = "ar" -> "Arabic" [] l = "hi" -> "Hindi"
          [] l = "tr" -> "Turkish" [] l = "nl" -> "Dutch" [] l = "bn" -> "Bengali"]

LanguageName(language) ==
    IF language \in DOMAIN language_names THEN language_names[language] ELSE "English"

\* mutant: a duration of exactly the threshold still gets the short template
PromptTemplate_inclusive(duration) ==
    IF /\ ~DurationLeq(duration, PROMPT_MIN_RECORDING_DURATION)
       /\ DurationLeq(duration, PROMPT_SHORT_RECORDING_THRESHOLD)
    THEN "short"
    ELSE "full"

\* MIN_RECORDING_DURATION < duration < SHORT_RECORDING_THRESHOLD
PromptTemplate(duration) ==
    IF /\ ~DurationLeq(duration, PROMPT_MIN_RECORDING_DURATION)
       /\ DurationLt(duration, PROMPT_SHORT_RECORDING_THRESHOLD)
    THEN "short"
    ELSE "full"

\* the prompt by its parts: which of the two templates, what is filled in,
\* seconds being int(duration); repeat_context stays the empty string, and
\* is_repeat and previous_transcription are not read
build_feedback_prompt(topic, speech_type, transcription_text, duration, language, is_repeat, previous_transcription) ==
    [template |-> PromptTemplate(duration),
     topic |-> topic, speech_type |-> speech_type,
     transcription_text |-> transcription_text,
     seconds |-> duration.num \div duration.den,
     repeat_context |-> <<>>,
     language_name |-> LanguageName(language)]

\* mutant: every recording of the session gets the text
UpdateFeedback_all(st, session_id, filename, full_feedback) ==
    IF session_id \notin DOMAIN st.user_sessions
    THEN st
    ELSE Store([st.user_sessions EXCEPT
                   ![session_id] = [i \in 1..Len(@) |->
                                       [@[i] EXCEPT !.feedback = full_feedback]]],
               st.session_counters)

\* mutant: the list of a session that is gone is made anew
UpdateFeedback_setdefault(st, session_id, filename, full_feedback) ==
    IF session_id \notin DOMAIN st.user_sessions
    THEN Store(Put(st.user_sessions, session_id, <<>>), st.session_counters)
    ELSE LET i == FirstIndex(st.user_sessions[session_id], filename)
         IN IF i = 0
            THEN st
            ELSE Store([st.user_sessions EXCEPT
                           ![session_id][i].feedback = full_feedback],
                       st.session_counters)

\* for rec in user_sessions.get(session_id, []): the first match gets the text
UpdateFeedback(st, session_id, filename, full_feedback) ==
    IF session_id \notin DOMAIN st.user_sessions
    THEN st
    ELSE LET i == FirstIndex(st.user_sessions[session_id], filename)
         IN IF i = 0
            THEN st
            ELSE Store([st.user_sessions EXCEPT
                           ![session_id][i].feedback = full_feedback],
                       st.session_counters)

\* Each step of the generator maps the store and the generator to the store
\* and the generator after it.

\* from the first next() to the first yield or to the for loop: the lookup,
\* then client.chat.completions.create, which raises or returns the stream
StartStream(st, g, createRaises) ==
    IF get_session_recording_data(st, g.session_id, g.filename) = <<>>
    THEN [store |-> st,
          g |-> [g EXCEPT !.events = Append(@, ErrorEvent), !.pc = "done"]]
    ELSE LET recording == get_session_recording_data(st, g.session_id, g.filename)[1]
             feedback_prompt ==
                 build_feedback_prompt(recording.topic, recording.speech_type,
                                       recording.transcription,
                                       Duration(recording.audio_data.len),
                                       g.language, FALSE, <<>>)
         IN IF createRaises
            THEN [store |-> st,
                  g |-> [g EXCEPT !.found = TRUE, !.calls = @ + 1,
                                  !.prompt = <<feedback_prompt>>,
                                  !.events = Append(@, ErrorEvent), !.pc = "done"]]
            ELSE [store |-> st,
                  g |-> [g EXCEPT !.found = TRUE, !.calls = @ + 1,
                                  !.prompt = <<feedback_prompt>>,
                                  !.pc = "iterating"]]

\* mutant: the newest chunk is sent ahead of the chunks before it
OnDelta_newestFirst(st, g, delta) ==
    IF delta # <<>>
    THEN [store |-> st,
          g |-> [g EXCEPT !.full_feedback = @ \o delta[1],
                          !.chunk_count = @ + 1,
                          !.events = <<ChunkEvent(delta[1])>> \o @]]
    ELSE [store |-> st, g |-> g]

\* one turn of the for loop
OnDelta(st, g, delta) ==
    IF delta # <<>>
    THEN [store |-> st,
          g |-> [g EXCEPT !.full_feedback = @ \o delta[1],
                          !.chunk_count = @ + 1,
                          !.events = Append(@, ChunkEvent(delta[1]))]]
    ELSE [store |-> st, g |-> g]

\* mutant: the complete event counts every event sent, itself included
OnStreamEnd_countsItself(st, g) ==
    [store |-> st,
     g |-> [g EXCEPT !.events = Append(@, CompleteEvent(Len(g.events) + 1)),
                     !.pc = "complete"]]

\* the stream is exhausted: the complete event is yielded
OnStreamEnd(st, g) ==
    [store |-> st,
     g |-> [g EXCEPT !.events = Append(@, CompleteEvent(g.chunk_count)),
                     !.pc = "complete"]]

\* mutant: the except branch stores what was accumulated so far
OnStreamRaise_savePartial(st, g) ==
    [store |-> UpdateFeedback(st, g.session_id, g.filename, g.full_feedback),
     g |-> [g EXCEPT !.events = Append(@, ErrorEvent), !.pc = "done"]]

\* mutant: after the error event the completion signal is sent as well
OnStreamRaise_thenComplete(st, g) ==
    [store |-> st,
     g |-> [g EXCEPT !.events = Append(Append(@, ErrorEvent),
                                       CompleteEvent(g.chunk_count)),
                     !.pc = "done"]]

\* mutant: the call is made once more before the error is reported
OnStreamRaise_retry(st, g) ==
    [store |-> st,
     g |-> [g EXCEPT !.calls = @ + 1, !.events = Append(@, ErrorEvent), !.pc = "done"]]

\* the upstream raises inside the for loop: the except branch yields the
\* error event and the generator returns
OnStreamRaise(st, g) ==
    [store |-> st, g |-> [g EXCEPT !.events = Append(@, ErrorEvent), !.pc = "done"]]

\* mutant: the generator returns after the complete event without the update
OnResume_noUpdate(st, g) ==
    [store |-> st, g |-> [g EXCEPT !.pc = "done"]]

\* the generator is resumed after the complete event and runs to its end
OnResume(st, g) ==
    [store |-> UpdateFeedback(st, g.session_id, g.filename, g.full_feedback),
     g |-> [g EXCEPT !.pc = "done"]]

\* mutant: the update runs when the generator is closed, as in a finally
OnClose_thenUpdate(st, g) ==
    [store |-> UpdateFeedback(st, g.session_id, g.filename, g.full_feedback),
     g |-> [g EXCEPT !.pc = "closed"]]

\* GeneratorExit at a yield: no except branch catches it
OnClose(st, g) == [store |-> st, g |-> [g EXCEPT !.pc = "closed"]]

(* ------------------------------ the system ---------------------------- *)

TheStore == Store(user_sessions, session_counters)

\* every filename some session holds, every one a stream was opened for,
\* and one that no recording has
NoSuchFile == <<<<"n", "o">>, 0, 0>>

KnownFilenames ==
    UNION { { user_sessions[s][i].filename : i \in 1..Len(user_sessions[s]) } :
            s \in DOMAIN user_sessions }

Filenames ==
    KnownFilenames \cup {streams[i].filename : i \in 1..Len(streams)} \cup {NoSuchFile}

RECURSIVE SumChunks(_)
SumChunks(gs) == IF gs = <<>> THEN 0 ELSE Head(gs).chunk_count + SumChunks(Tail(gs))

\* chunks delivered so far, all streams together
TotalChunks == SumChunks(streams)

\* cleared[s] tells what happened to session s since its last successful
\* clear: "cleared" (no accepted submission yet), "first" (exactly one),
\* "no" (never cleared, or two or more)
AfterSubmit(c) == IF c = "cleared" THEN "first" ELSE "no"

Init ==
    /\ user_sessions = <<>>
    /\ session_counters = <<>>
    /\ now = 0
    /\ streams = <<>>
    /\ resp = NoResponse
    /\ nextUid = 1
    /\ cleared = [s \in SessionIds |-> "no"]
    /\ threads = <<>>
    /\ speech_history = <<>>
    /\ returned = <<>>
    /\ recorder = AudioRecorder
    /\ validation = NoValidation

\* the clock reaches the next second
Tick ==
    /\ now < MaxTime
    /\ now' = now + 1
    /\ UNCHANGED <<user_sessions, session_counters, streams, resp, nextUid, cleared>>
    /\ UNCHANGED elsewhere

\* uuid4 draws an identifier nobody holds
CreateSession(ids) ==
    \E session_id \in ids \ (DOMAIN user_sessions \cup DOMAIN session_counters) :
        LET r == create_new_session(TheStore, session_id)
        IN /\ user_sessions' = r.store.user_sessions
           /\ session_counters' = r.store.session_counters
           /\ resp' = r.resp
           /\ UNCHANGED <<now, streams, nextUid, cleared>>
           /\ UNCHANGED elsewhere

CleanupSession(headers) ==
    \E session_id \in headers :
        LET r == cleanup_user_session(TheStore, session_id)
        IN /\ user_sessions' = r.store.user_sessions
           /\ session_counters' = r.store.session_counters
           /\ resp' = r.resp
           /\ UNCHANGED <<now, streams, nextUid, cleared>>
           /\ UNCHANGED elsewhere

\* whether process_recording gets as far as the transcription call
ReachesTranscription(session_id, data) ==
    /\ Truthy(session_id)
    /\ ~data.empty
    /\ Strip(data.topic) # <<>>
    /\ Strip(data.speech_type) # <<>>
    /\ data.audio_data.kind = "ok"

\* the transcription call has an outcome only when it is made
OutcomesFor(session_id, data, trs) ==
    IF ReachesTranscription(session_id, data) THEN trs ELSE {TrRaises}

\* the body is read only when the header is there
BodiesFor(session_id, bodies) == IF Truthy(session_id) THEN bodies ELSE {NoData}

Submit(headers, bodies, trs) ==
    \E session_id \in headers :
      \E data \in BodiesFor(session_id, bodies) :
        \E tr \in OutcomesFor(session_id, data, trs) :
          LET r == process_recording(TheStore, session_id, data, tr, now, nextUid)
          IN /\ r.resp.success => nextUid <= MaxSubmits
             /\ user_sessions' = r.store.user_sessions
             /\ session_counters' = r.store.session_counters
             /\ resp' = r.resp
             /\ nextUid' = IF r.resp.success THEN nextUid + 1 ELSE nextUid
             /\ cleared' = IF r.resp.success
                           THEN [cleared EXCEPT ![session_id] = AfterSubmit(@)]
                           ELSE cleared
             /\ UNCHANGED <<now, streams>>
             /\ UNCHANGED elsewhere

DeleteRecording(headers) ==
    \E session_id \in headers, filename \in Filenames :
        LET r == delete_recording(TheStore, session_id, filename)
        IN /\ user_sessions' = r.store.user_sessions
           /\ session_counters' = r.store.session_counters
           /\ resp' = r.resp
           /\ UNCHANGED <<now, streams, nextUid, cleared>>
           /\ UNCHANGED elsewhere

ClearRecordings(headers) ==
    \E session_id \in headers :
        LET r == clear_all_recordings(TheStore, session_id)
        IN /\ user_sessions' = r.store.user_sessions
           /\ session_counters' = r.store.session_counters
           /\ resp' = r.resp
           /\ cleared' = IF r.resp.success
                         THEN [cleared EXCEPT ![session_id] = "cleared"]
                         ELSE cleared
           /\ UNCHANGED <<now, streams, nextUid>>
           /\ UNCHANGED elsewhere

ListRecordings(headers) ==
    \E session_id \in headers :
        LET r == list_recordings(TheStore, session_id)
        IN /\ user_sessions' = r.store.user_sessions
           /\ session_counters' = r.store.session_counters
           /\ resp' = r.resp
           /\ UNCHANGED <<now, streams, nextUid, cleared>>
           /\ UNCHANGED elsewhere

GetRecording(headers) ==
    \E session_id \in headers, filename \in Filenames :
        LET r == get_recording(TheStore, session_id, filename)
        IN /\ user_sessions' = r.store.user_sessions
           /\ session_counters' = r.store.session_counters
           /\ resp' = r.resp
           /\ UNCHANGED <<now, streams, nextUid, cleared>>
           /\ UNCHANGED elsewhere

\* the handler stream_feedback: it builds the generator and returns
StreamOpen(languages) ==
    \E session_id \in SessionIds, filename \in Filenames, language \in languages :
        /\ Len(streams) < MaxStreams
        /\ streams' = Append(streams, NewStream(session_id, filename, language))
        /\ UNCHANGED <<user_sessions, session_counters, now, resp, nextUid, cleared>>
        /\ UNCHANGED elsewhere

\* generator i takes the step that leads to r
Step(i, r) ==
    /\ streams' = [streams EXCEPT ![i] = r.g]
    /\ user_sessions' = r.store.user_sessions
    /\ session_counters' = r.store.session_counters
    /\ UNCHANGED <<now, resp, nextUid, cleared>>
    /\ UNCHANGED elsewhere

StreamStart ==
    \E i \in 1..Len(streams), createRaises \in BOOLEAN :
        /\ streams[i].pc = "new"
        /\ Step(i, StartStream(TheStore, streams[i], createRaises))

\* next(stream) hands the generator one more delta
Handed(g, delta) ==
    IF delta # <<>> THEN [g EXCEPT !.upstream = Append(@, delta[1])] ELSE g

StreamDelta ==
    \E i \in 1..Len(streams), delta \in Deltas :
        /\ streams[i].pc = "iterating"
        /\ delta # <<>> => TotalChunks < MaxDeltas
        /\ Step(i, OnDelta(TheStore, Handed(streams[i], delta), delta))

StreamEnd ==
    \E i \in 1..Len(streams) :
        /\ streams[i].pc = "iterating"
        /\ Step(i, OnStreamEnd(TheStore, streams[i]))

StreamRaise ==
    \E i \in 1..Len(streams) :
        /\ streams[i].pc = "iterating"
        /\ Step(i, OnStreamRaise(TheStore, streams[i]))

StreamFinish ==
    \E i \in 1..Len(streams) :
        /\ streams[i].pc = "complete"
        /\ Step(i, OnResume(TheStore, streams[i]))

\* the client is gone: the server closes the generator, suspended at the
\* yield of an event it could not deliver
StreamClose ==
    \E i \in 1..Len(streams) :
        /\ \/ streams[i].pc = "iterating" /\ streams[i].events # <<>>
           \/ streams[i].pc = "complete"
        /\ Step(i, OnClose(TheStore, streams[i]))

(* --------------------------- specifications --------------------------- *)

\* The session store under the requests of two sessions: one accepted
\* request body and one rejected, no stream.
CoreHeaders == SessionIds \cup {None}
CoreBodies == { Body(TopicPadded, TypeTalk, AudioAboveMin),
                Body(TopicPlain, TypeTalk, AudioAtMin) }
CoreTranscriptions == { TrText(<<"h", "e", "y">>), TrRaises }

Next ==
    \/ Tick
    \/ CreateSession(SessionIds)
    \/ CleanupSession(CoreHeaders)
    \/ Submit(CoreHeaders, CoreBodies, CoreTranscriptions)
    \/ DeleteRecording(CoreHeaders)
    \/ ClearRecordings(CoreHeaders)

Spec == Init /\ [][Next]_vars

\* The submit endpoint on every request body and transcription outcome.
NextRecord ==
    \/ Tick
    \/ CreateSession(SessionIds)
    \/ CleanupSession(Headers)
    \/ Submit(Headers, Bodies, Transcriptions)

SpecRecord == Init /\ [][NextRecord]_vars

\* The feedback stream against the requests of one session, within one
\* second.
StreamHeaders == {"s1"}
StreamBodies == { Body(TopicPadded, TypeTalk, AudioAboveMin) }
StreamTranscriptions == { TrText(<<"h", "e", "y">>) }

NextStream ==
    \/ CreateSession(StreamHeaders)
    \/ CleanupSession(StreamHeaders)
    \/ Submit(StreamHeaders, StreamBodies, StreamTranscriptions)
    \/ DeleteRecording(StreamHeaders)
    \/ ClearRecordings(StreamHeaders)
    \/ ListRecordings(StreamHeaders)
    \/ GetRecording(StreamHeaders)
    \/ StreamOpen({"en"})
    \/ StreamStart
    \/ StreamDelta
    \/ StreamEnd
    \/ StreamRaise
    \/ StreamFinish
    \/ StreamClose

SpecStream == Init /\ [][NextStream]_vars

\* The prompt of the feedback stream: submissions of one session in two
\* lengths and languages, flagged as repeats or not, and streams as far as
\* their upstream call.
PromptLanguages == {"en", "es", "xx"}

PromptBodies ==
    { InLanguage(Body(TopicPlain, TypeTalk, audio_data), language) :
          audio_data \in {AudioAboveMin, AudioBelowShort, AudioAtShort, AudioLong},
          language \in PromptLanguages }

\* the bodies, and each of them as a repeat of a recording there is
PromptRequests ==
    PromptBodies \cup { AsRepeatOf(data, filename) :
                            data \in PromptBodies, filename \in KnownFilenames }

NextPrompt ==
    \/ CreateSession(StreamHeaders)
    \/ Submit(StreamHeaders, PromptRequests, StreamTranscriptions)
    \/ StreamOpen(PromptLanguages)
    \/ StreamStart

SpecPrompt == Init /\ [][NextPrompt]_vars

\* The feedback stream run to its end: the requests of one session that
\* create, submit and open streams, the client staying connected. The
\* server takes the next event from a generator for as long as the response
\* is open, so a generator that can take a step takes it; the upstream
\* iterator ends or raises after finitely many deltas.
NextLive ==
    \/ CreateSession(StreamHeaders)
    \/ Submit(StreamHeaders, StreamBodies, StreamTranscriptions)
    \/ StreamOpen({"en"})
    \/ StreamStart
    \/ StreamDelta
    \/ StreamEnd
    \/ StreamRaise
    \/ StreamFinish

Fairness ==
    /\ WF_vars(StreamStart)
    /\ WF_vars(StreamEnd \/ StreamRaise)
    /\ WF_vars(StreamFinish)

SpecLive == Init /\ [][NextLive]_vars /\ Fairness

(* ------------------------- interleaved requests ----------------------- *)

\* app.run(threaded=True): each request runs in a thread of its own, and
\* nothing locks user_sessions or session_counters.  A thread is a request
\* past its checks that do not touch the store (for a submission: the field
\* checks, the transcription, the duration check), and it takes one step per
\* read or write of the store.  The session of the requests is created and
\* holds one recording when the threads start.
MaxThreads == 3

RaceSession == "s1"

RaceBody == Body(TopicPlain, TypeTalk, AudioAboveMin)

RaceText == <<"h", "e", "y">>

RaceStore ==
    process_recording(create_new_session(Store(<<>>, <<>>), RaceSession).store,
                      RaceSession, RaceBody, TrText(RaceText), 0, 1).store

\* op is the handler ("record", "delete", "cleanup"); pc the statement the
\* thread is about to run; filename the recording a delete names, or the name
\* a submission has built; n, initial_count and filtered are locals;
\* after tells whether a destroy had completed when the request started
NewThread(op, session_id, pc, filename, uid, after) ==
    [op |-> op, session_id |-> session_id, pc |-> pc, filename |-> filename,
     n |-> 0, initial_count |-> 0, filtered |-> <<>>, uid |-> uid,
     response |-> NoResponse, after |-> after]

\* the thread ends with the response r
Returns(st, th, r) == [store |-> st, th |-> [th EXCEPT !.pc = "done", !.response = r]]

\* the thread goes on at pc
Goes(st, th, pc) == [store |-> st, th |-> [th EXCEPT !.pc = pc]]

\* a KeyError inside process_recording: its except branch answers 500
RecordRaises(st, th) == Returns(st, th, ErrorResponse("record", 500, "KeyError"))

\* a KeyError inside delete_recording reaches handle_error
DeleteRaises(st, th) == Returns(st, th, handle_error("delete", "KeyError"))

\* generate_session_filename and save_session_recording of one submission,
\* statement by statement
RecordStep(st, th, t) ==
    LET session_id == th.session_id
    IN CASE th.pc = "counter_get" ->
              \* session_counters.get(session_id, 0) + 1
              Goes(st, [th EXCEPT !.n = NextCounter(st, session_id)], "counter_set")
         [] th.pc = "counter_set" ->
              \* session_counters[session_id] = ...
              Goes(Store(st.user_sessions, Put(st.session_counters, session_id, th.n)),
                   th, "filename")
         [] th.pc = "filename" ->
              \* f"{clean_topic}_{timestamp}_{session_counters[session_id]}.wav"
              IF session_id \notin DOMAIN st.session_counters
              THEN RecordRaises(st, th)
              ELSE Goes(st, [th EXCEPT !.filename =
                                 <<ReplaceSpaces(Take(ReSubDisallowed(Strip(RaceBody.topic)),
                                                      FILENAME_TOPIC_MAX)),
                                   t, st.session_counters[session_id]>>],
                        "ensure")
         [] th.pc = "ensure" ->
              \* if session_id and session_id not in user_sessions
              Goes(st, th, IF session_id \notin DOMAIN st.user_sessions
                           THEN "ensure_list" ELSE "append")
         [] th.pc = "ensure_list" ->
              \* user_sessions[session_id] = []
              Goes(Store(Put(st.user_sessions, session_id, <<>>), st.session_counters),
                   th, "ensure_counter")
         [] th.pc = "ensure_counter" ->
              \* session_counters[session_id] = 0
              Goes(Store(st.user_sessions, Put(st.session_counters, session_id, 0)),
                   th, "append")
         [] th.pc = "append" ->
              \* user_sessions[session_id].append(recording_info), and the handle
              IF session_id \notin DOMAIN st.user_sessions
              THEN RecordRaises(st, th)
              ELSE Returns(Store([st.user_sessions EXCEPT ![session_id] =
                                     Append(@, RecordingInfo(th.filename, RaceBody.audio_data.bytes,
                                                             Strip(RaceBody.topic),
                                                             Strip(RaceBody.speech_type),
                                                             RaceText, <<>>, t, th.uid))],
                                 st.session_counters),
                           th,
                           Response("record", 200, TRUE, "",
                              <<[filename |-> th.filename, transcription |-> RaceText,
                                 topic |-> Strip(RaceBody.topic),
                                 speech_type |-> Strip(RaceBody.speech_type),
                                 score_type |-> ScoreType(Duration(RaceBody.audio_data.bytes.len)),
                                 stream_url |-> <<session_id, th.filename>>]>>))

\* delete_session_recording and the answer of delete_recording
DeleteStep(st, th) ==
    LET session_id == th.session_id
        gone == session_id \notin DOMAIN st.user_sessions
    IN CASE th.pc = "test" ->
              \* if not session_id or session_id not in user_sessions
              IF gone
              THEN Returns(st, th, ErrorResponse("delete", 404, "Recording not found"))
              ELSE Goes(st, th, "count")
         [] th.pc = "count" ->
              \* initial_count = len(user_sessions[session_id])
              IF gone
              THEN DeleteRaises(st, th)
              ELSE Goes(st, [th EXCEPT !.initial_count = Len(st.user_sessions[session_id])],
                        "filter")
         [] th.pc = "filter" ->
              \* [rec for rec in user_sessions[session_id] if ...]
              IF gone
              THEN DeleteRaises(st, th)
              ELSE Goes(st, [th EXCEPT !.filtered =
                                 FilterOut(st.user_sessions[session_id], th.filename)],
                        "assign")
         [] th.pc = "assign" ->
              \* user_sessions[session_id] = ...
              Goes(Store(Put(st.user_sessions, session_id, th.filtered), st.session_counters),
                   th, "compare")
         [] th.pc = "compare" ->
              \* return len(user_sessions[session_id]) < initial_count
              IF gone
              THEN DeleteRaises(st, th)
              ELSE IF Len(st.user_sessions[session_id]) < th.initial_count
              THEN Returns(st, th, Response("delete", 200, TRUE, "",
                                            <<[filename |-> th.filename]>>))
              ELSE Returns(st, th, ErrorResponse("delete", 404, "Recording not found"))

\* cleanup_session and the answer of cleanup_user_session
CleanupStep(st, th) ==
    LET session_id == th.session_id
    IN CASE th.pc = "del_list" ->
              \* if session_id in user_sessions: del user_sessions[session_id]
              Goes(Store(IF session_id \in DOMAIN st.user_sessions
                         THEN Remove(st.user_sessions, session_id) ELSE st.user_sessions,
                         st.session_counters),
                   th, "del_counter")
         [] th.pc = "del_counter" ->
              \* if session_id in session_counters: del session_counters[session_id]
              Returns(Store(st.user_sessions,
                            IF session_id \in DOMAIN st.session_counters
                            THEN Remove(st.session_counters, session_id)
                            ELSE st.session_counters),
                      th, Response("cleanup", 200, TRUE, "", NoResult))

ThreadStep(st, th, t) ==
    CASE th.op = "record" -> RecordStep(st, th, t)
      [] th.op = "delete" -> DeleteStep(st, th)
      [] th.op = "cleanup" -> CleanupStep(st, th)

\* a destroy of the session has returned
Destroyed ==
    \E i \in 1..Len(threads) : threads[i].op = "cleanup" /\ threads[i].pc = "done"

Starts(th) ==
    /\ Len(threads) < MaxThreads
    /\ threads' = Append(threads, th)
    /\ UNCHANGED <<user_sessions, session_counters, now, streams, resp, cleared>>
    /\ UNCHANGED <<speech_history, returned>>
    /\ UNCHANGED cli

\* POST /api/record reaches generate_session_filename
StartRecord ==
    /\ Starts(NewThread("record", RaceSession, "counter_get", <<>>, nextUid, Destroyed))
    /\ nextUid' = nextUid + 1

\* DELETE /api/recordings/<filename> for a recording there is
StartDelete ==
    \E filename \in KnownFilenames :
        /\ Starts(NewThread("delete", RaceSession, "test", filename, 0, Destroyed))
        /\ UNCHANGED nextUid

\* POST /api/session/cleanup
StartCleanup ==
    /\ Starts(NewThread("cleanup", RaceSession, "del_list", <<>>, 0, Destroyed))
    /\ UNCHANGED nextUid

\* some thread runs its next statement
ThreadRun ==
    \E i \in 1..Len(threads) :
        /\ threads[i].pc # "done"
        /\ LET r == ThreadStep(TheStore, threads[i], now)
           IN /\ threads' = [threads EXCEPT ![i] = r.th]
              /\ user_sessions' = r.store.user_sessions
              /\ session_counters' = r.store.session_counters
              /\ resp' = IF r.th.pc = "done" THEN r.th.response ELSE resp
        /\ UNCHANGED <<now, streams, nextUid, cleared>>
        /\ UNCHANGED <<speech_history, returned>>
        /\ UNCHANGED cli

InitRace ==
    /\ user_sessions = RaceStore.user_sessions
    /\ session_counters = RaceStore.session_counters
    /\ now = 0
    /\ streams = <<>>
    /\ resp = NoResponse
    /\ nextUid = 2
    /\ cleared = [s \in SessionIds |-> "no"]
    /\ threads = <<>>
    /\ speech_history = <<>>
    /\ returned = <<>>
    /\ recorder = AudioRecorder
    /\ validation = NoValidation

NextRace ==
    \/ StartRecord
    \/ StartDelete
    \/ StartCleanup
    \/ ThreadRun

SpecRace == InitRace /\ [][NextRace]_vars

(* ----------------------- persistence.py: history --------------------- *)

\* DataPersistence keeps speech_history.json, a JSON list of records.  A
\* record is its id and its recorded_at; recorded_at is the isoformat string
\* of a time, or it is missing.  The clock is datetime.now(), in seconds.

\* saves in one run
MaxSaves == 102

\* if len(history) > 100: history = history[-100:]
HISTORY_MAX == 100
\* load_speech_history(self, limit=50)
DEFAULT_LIMIT == 50
\* cleanup_old_data(self, days_old=30)
DEFAULT_DAYS_OLD == 30
\* timedelta(days=1) in seconds
SECONDS_PER_DAY == 86400

\* datetime.isoformat() and record.get('recorded_at', '')
Isoformat(t) == [kind |-> "iso", t |-> t]
NoDate == [kind |-> "none", t |-> 0]

\* datetime.fromisoformat(s): the time, or <<>> when it raises
fromisoformat(s) == IF s.kind = "iso" THEN <<s.t>> ELSE <<>>

\* seq[-n:] of Python for an integer n other than 0
LastOf(seq, n) ==
    IF n > 0
    THEN (IF n >= Len(seq) THEN seq ELSE SubSeq(seq, Len(seq) - n + 1, Len(seq)))
    ELSE (IF -n >= Len(seq) THEN <<>> ELSE SubSeq(seq, 1 - n, Len(seq)))

\* mutant: the first 100 records are kept
save_speech_history_keepFirst(file, speech_record, t) ==
    LET history == Append(IF file = <<>> THEN <<>> ELSE file[1],
                          [speech_record EXCEPT !.recorded_at = Isoformat(t)])
    IN [file |-> <<IF Len(history) > HISTORY_MAX
                   THEN SubSeq(history, 1, HISTORY_MAX) ELSE history>>,
        returned |-> TRUE]

\* the file after the call and what the call returns
save_speech_history(file, speech_record, t) ==
    LET history == Append(IF file = <<>> THEN <<>> ELSE file[1],
                          [speech_record EXCEPT !.recorded_at = Isoformat(t)])
    IN [file |-> <<IF Len(history) > HISTORY_MAX
                   THEN LastOf(history, HISTORY_MAX) ELSE history>>,
        returned |-> TRUE]

\* limit is <<>> for None; history[-limit:] if limit else history
load_speech_history(file, limit) ==
    IF file = <<>>
    THEN <<>>
    ELSE IF limit # <<>> /\ limit[1] # 0
         THEN LastOf(file[1], limit[1])
         ELSE file[1]

\* SpeechDataManager.get_speech_history(limit=20)
get_speech_history(file, limit) == load_speech_history(file, limit)

\* record_date > cutoff_date, or the date does not parse
KeptByCleanup(record, cutoff_date) ==
    LET record_date == fromisoformat(record.recorded_at)
    IN record_date = <<>> \/ record_date[1] > cutoff_date

cleanup_old_data(file, days_old, t) ==
    LET cutoff_date == t - days_old * SECONDS_PER_DAY
        history == load_speech_history(file, <<DEFAULT_LIMIT>>)
        cleaned_history == SelectSeq(history, LAMBDA record : KeptByCleanup(record, cutoff_date))
    IN [file |-> IF Len(cleaned_history) < Len(history) THEN <<cleaned_history>> ELSE file,
        returned |-> TRUE]

\* the limits asked for: None, 0, and numbers below, at and above the
\* lengths a history has
Limits == {<<>>, <<0>>, <<2>>, <<DEFAULT_LIMIT>>}

\* the ages in days asked of cleanup_old_data
DaysOld == {DEFAULT_DAYS_OLD, DEFAULT_DAYS_OLD + 1}

\* the times at which something is saved or cleaned
LaterTimes == {(DEFAULT_DAYS_OLD + 1) * SECONDS_PER_DAY}

SaveSpeechHistory ==
    /\ nextUid <= MaxSaves
    /\ LET r == save_speech_history(speech_history,
                                    [id |-> nextUid, recorded_at |-> NoDate], now)
       IN /\ speech_history' = r.file
          /\ returned' = <<r.returned>>
    /\ nextUid' = nextUid + 1
    /\ UNCHANGED <<user_sessions, session_counters, now, streams, resp, cleared, threads>>
    /\ UNCHANGED cli

LoadSpeechHistory ==
    \E limit \in Limits :
        /\ returned' = <<get_speech_history(speech_history, limit)>>
        /\ UNCHANGED <<user_sessions, session_counters, now, streams, resp, nextUid,
                       cleared, threads, speech_history>>
        /\ UNCHANGED cli

CleanupOldData ==
    \E days_old \in DaysOld :
        LET r == cleanup_old_data(speech_history, days_old, now)
        IN /\ speech_history' = r.file
           /\ returned' = <<r.returned>>
           /\ UNCHANGED <<user_sessions, session_counters, now, streams, resp, nextUid,
                          cleared, threads>>
           /\ UNCHANGED cli

\* time passes
Elapse ==
    \E t \in LaterTimes :
        /\ t > now
        /\ now' = t
        /\ UNCHANGED <<user_sessions, session_counters, streams, resp, nextUid,
                       cleared, threads, speech_history, returned>>
        /\ UNCHANGED cli

NextHistory ==
    \/ SaveSpeechHistory
    \/ LoadSpeechHistory
    \/ CleanupOldData
    \/ Elapse

SpecHistory == Init /\ [][NextHistory]_vars

(* --------------------------- audio recorder --------------------------- *)

\* the language codes of config.LANGUAGES
LANGUAGES ==
    {"en", "ko", "zh-CN", "it", "ja", "pt", "ru", "ar", "hi", "tr", "nl", "fr",
     "es", "de", "bn", "zh"}

\* Validator.validate_language: TRUE where it returns, FALSE where it raises
\* ValidationError
validate_language(language_code) ==
    /\ language_code # ""
    /\ language_code \in LANGUAGES

\* Validator.validate_duration: TRUE where it returns
validate_duration(duration) == duration > 0 /\ duration <= 3600

\* what a method of the recorder returns: the success flag, the message and,
\* from a start that succeeded, the capture thread (0 for none)
RecorderReturn(op, success, message, thread) ==
    [op |-> op, success |-> success, message |-> message, thread |-> thread]

\* a capture thread that has not opened its input stream yet
NewCapture == [pc |-> "open", chunk |-> 0, joined |-> FALSE]

\* mutant: start_recording without the test of the flag
start_recording_noCheck(rec, language) ==
    IF ~validate_language(language)
    THEN [recorder |-> rec,
          returned |-> RecorderReturn("start_recording", FALSE, "ValidationError", 0)]
    ELSE [recorder |-> [rec EXCEPT !.recording = TRUE, !.recorded_data = <<>>,
                                   !.capture = Append(@, NewCapture)],
          returned |-> RecorderReturn("start_recording", TRUE, "",
                                      Len(rec.capture) + 1)]

\* AudioRecorder.start_recording: an invalid language raises inside the try
\* and is returned as a failure; a recording in progress is a failure; else
\* the flag is set, the captured data is a new empty list and a capture
\* thread is started and returned
start_recording(rec, language) ==
    IF ~validate_language(language)
    THEN [recorder |-> rec,
          returned |-> RecorderReturn("start_recording", FALSE, "ValidationError", 0)]
    ELSE IF rec.recording
    THEN [recorder |-> rec,
          returned |-> RecorderReturn("start_recording", FALSE, "Already recording", 0)]
    ELSE [recorder |-> [rec EXCEPT !.recording = TRUE, !.recorded_data = <<>>,
                                   !.capture = Append(@, NewCapture)],
          returned |-> RecorderReturn("start_recording", TRUE, "",
                                      Len(rec.capture) + 1)]

\* AudioRecorder.stop_recording up to its input(): with nothing being
\* recorded it returns a failure, else it waits for the Enter key (and has
\* returned nothing yet)
stop_recording(rec) ==
    IF ~rec.recording
    THEN [recorder |-> rec,
          returned |-> <<RecorderReturn("stop_recording", FALSE,
                                        "No recording in progress", 0)>>]
    ELSE [recorder |-> [rec EXCEPT !.caller = "input"], returned |-> <<>>]

\* the rest of stop_recording: input() returns, the flag is cleared
stop_recording_entered(rec) ==
    [recorder |-> [rec EXCEPT !.recording = FALSE, !.caller = "idle"],
     returned |-> <<RecorderReturn("stop_recording", TRUE, "", 0)>>]

\* input() raises (end of input, interrupt): stop_recording is left with the
\* flag as it was
stop_recording_interrupted(rec) ==
    [recorder |-> [rec EXCEPT !.caller = "idle"],
     returned |-> <<RecorderReturn("stop_recording", FALSE, "raised", 0)>>]

\* AudioRecorder.save_recording: no data is a failure; a topic that
\* sanitize_topic refuses is a failure that keeps the data; else the file is
\* written, the duration (one second a chunk) validated, the data cleared
save_recording(rec, topicOk) ==
    IF rec.recorded_data = <<>>
    THEN [recorder |-> rec,
          returned |-> RecorderReturn("save_recording", FALSE,
                                      "No recorded data to save", 0)]
    ELSE IF ~topicOk \/ ~validate_duration(Len(rec.recorded_data))
    THEN [recorder |-> rec,
          returned |-> RecorderReturn("save_recording", FALSE,
                                      "Failed to save recording", 0)]
    ELSE [recorder |-> [rec EXCEPT !.recorded_data = <<>>],
          returned |-> RecorderReturn("save_recording", TRUE, "", 0)]

\* _record_audio at "while self.recording"
record_audio_test(rec, i) ==
    [rec EXCEPT !.capture[i].pc = IF rec.recording THEN "read" ELSE "ended"]

\* one step of _record_audio in capture thread i: the stream is opened (or
\* the device raises); the flag is tested; a chunk is read (or the read
\* raises); the chunk is appended to the list recorded_data names then
record_audio(rec, i, raises) ==
    LET th == rec.capture[i]
    IN CASE th.pc = "open" ->
              [rec EXCEPT !.capture[i].pc = IF raises THEN "raised" ELSE "test"]
         [] th.pc = "test" -> record_audio_test(rec, i)
         [] th.pc = "read" ->
              IF raises
              THEN [rec EXCEPT !.capture[i].pc = "raised"]
              ELSE [rec EXCEPT !.capture[i].pc = "append",
                               !.capture[i].chunk = rec.chunks + 1,
                               !.chunks = @ + 1]
         [] th.pc = "append" ->
              [rec EXCEPT !.capture[i].pc = "test",
                          !.recorded_data = Append(@, th.chunk)]
         [] OTHER -> rec

\* capture thread i has left _record_audio
Over_capture(rec, i) == rec.capture[i].pc \in {"ended", "raised"}

RecorderLanguages == {"en", "xx"}

RecorderUnchanged ==
    UNCHANGED <<user_sessions, session_counters, now, streams, resp, nextUid, cleared,
                threads, speech_history, validation>>

StartRecording ==
    \E language \in RecorderLanguages :
        /\ recorder.caller = "idle"
        /\ Len(recorder.capture) < MaxCaptures
        /\ LET r == start_recording(recorder, language)
           IN /\ recorder' = r.recorder
              /\ returned' = <<r.returned>>
        /\ RecorderUnchanged

StopRecording ==
    /\ recorder.caller = "idle"
    /\ LET r == stop_recording(recorder)
       IN /\ recorder' = r.recorder
          /\ returned' = r.returned
    /\ RecorderUnchanged

\* the user presses Enter, or the input ends
PressEnter ==
    /\ recorder.caller = "input"
    /\ \E r \in {stop_recording_entered(recorder), stop_recording_interrupted(recorder)} :
           /\ recorder' = r.recorder
           /\ returned' = r.returned
    /\ RecorderUnchanged

SaveRecording ==
    \E topicOk \in BOOLEAN :
        /\ recorder.caller = "idle"
        /\ LET r == save_recording(recorder, topicOk)
           IN /\ recorder' = r.recorder
              /\ returned' = <<r.returned>>
        /\ RecorderUnchanged

\* a capture thread runs one step; it reads no chunk beyond MaxChunks
RecordAudio ==
    \E i \in 1..Len(recorder.capture), raises \in BOOLEAN :
        /\ ~Over_capture(recorder, i)
        /\ recorder.capture[i].pc = "read" /\ ~raises => recorder.chunks < MaxChunks
        /\ recorder' = record_audio(recorder, i, raises)
        /\ UNCHANGED returned
        /\ RecorderUnchanged

\* recording_thread.join() returns: the thread is over
Join ==
    \E i \in 1..Len(recorder.capture) :
        /\ recorder.caller = "idle"
        /\ Over_capture(recorder, i)
        /\ ~recorder.capture[i].joined
        /\ recorder' = [recorder EXCEPT !.capture[i].joined = TRUE]
        /\ UNCHANGED returned
        /\ RecorderUnchanged

NextRecorder ==
    \/ StartRecording
    \/ StopRecording
    \/ PressEnter
    \/ SaveRecording
    \/ RecordAudio
    \/ Join

SpecRecorder == Init /\ [][NextRecorder]_vars

(* -------------------------- config validator -------------------------- *)

\* what the machine gives each check of ConfigValidator: whether the test
\* directory can be made, written and read; the audio devices; whether
\* speech_recognition imports; the installed openai package ("v0" has the
\* module openai.error and openai.ChatCompletion, "v1" has openai.OpenAI,
\* which src/web_api.py calls, and neither of the two), whether the key is
\* configured and what the chat completion answers; what the translation
\* request answers
Environments ==
    [file_system : {"ok", "denied"},
     audio : {"ok", "no_input", "error"},
     speech_recognition : {"ok", "ImportError", "error"},
     openai : {"v0", "v1"},
     api_key : BOOLEAN,
     completion : {"ok", "AuthenticationError", "RateLimitError", "error"},
     translation : {"ok", "invalid", "RequestException", "ValueError"}]

\* how a check ends: it returns True or False, or it raises
\* ConfigurationError or another Exception
Outcomes == {"True", "False", "ConfigurationError", "Exception"}

\* validate_file_system: every exception becomes a ConfigurationError
validate_file_system(env) ==
    IF env.file_system = "ok" THEN "True" ELSE "ConfigurationError"

\* validate_audio_system: no input device and every exception become a
\* ConfigurationError
validate_audio_system(env) ==
    IF env.audio = "ok" THEN "True" ELSE "ConfigurationError"

\* validate_speech_recognition: an ImportError becomes a ConfigurationError,
\* any other exception a warning and True
validate_speech_recognition(env) ==
    IF env.speech_recognition = "ImportError" THEN "ConfigurationError" ELSE "True"

\* what the try block of validate_openai_api raises ("" where it returns
\* True): ConfigurationError for a key that is not configured, else what
\* openai.ChatCompletion.create raises, which in "v1" is always an error
openai_try(env) ==
    IF ~env.api_key THEN "ConfigurationError"
    ELSE IF env.openai = "v1" THEN "error"
    ELSE IF env.completion = "ok" THEN ""
    ELSE env.completion

\* validate_openai_api: an exception of the try block is matched against
\* "except openai.error.AuthenticationError" first, and evaluating that
\* expression raises AttributeError where the package has no module error;
\* else authentication and other errors become a ConfigurationError and a
\* rate limit True
validate_openai_api(env) ==
    LET raised == openai_try(env)
    IN IF raised = "" THEN "True"
       ELSE IF env.openai = "v1" THEN "Exception"
       ELSE IF raised = "AuthenticationError" THEN "ConfigurationError"
       ELSE IF raised = "RateLimitError" THEN "True"
       ELSE "ConfigurationError"

\* validate_translation_api: an answer without responseData raises
\* ConfigurationError, a RequestException returns False, any other
\* exception (a body that is no JSON) is not caught
validate_translation_api(env) ==
    CASE env.translation = "ok" -> "True"
      [] env.translation = "invalid" -> "ConfigurationError"
      [] env.translation = "RequestException" -> "False"
      [] OTHER -> "Exception"

\* the list validations of validate_all
validations ==
    <<"File System", "Audio System", "Speech Recognition", "OpenAI API",
      "Translation API">>

\* the validator of a name in validations
validator(name, env) ==
    CASE name = "File System" -> validate_file_system(env)
      [] name = "Audio System" -> validate_audio_system(env)
      [] name = "Speech Recognition" -> validate_speech_recognition(env)
      [] name = "OpenAI API" -> validate_openai_api(env)
      [] OTHER -> validate_translation_api(env)

\* the names whose ConfigurationError sets critical_failed
CriticalNames == {"File System", "Audio System", "OpenAI API"}

\* results with results[name] = value
SetResult(results, name, value) ==
    [n \in (DOMAIN results) \cup {name} |-> IF n = name THEN value ELSE results[n]]

\* one round of the loop of validate_all: the check at v.at runs and ends as
\* outcome; outcomes lists how the checks run so far have ended
validate_one(v, outcome) ==
    LET name == validations[v.at]
    IN [at |-> v.at + 1,
        results |-> SetResult(v.results, name, outcome = "True"),
        critical_failed |->
            \/ v.critical_failed
            \/ outcome = "ConfigurationError" /\ name \in CriticalNames,
        outcomes |-> Append(v.outcomes, outcome)]

\* the end of validate_all: it raises ConfigurationError or returns results
validate_all_end(v) ==
    [op |-> "validate_all", raised |-> v.critical_failed,
     results |-> IF v.critical_failed THEN <<>> ELSE v.results,
     outcomes |-> v.outcomes]

ValidationUnchanged ==
    UNCHANGED <<user_sessions, session_counters, now, streams, resp, nextUid, cleared,
                threads, speech_history, recorder>>

\* validate_all is called
ValidateAll ==
    /\ validation.at = 0
    /\ validation' = [NoValidation EXCEPT !.at = 1]
    /\ UNCHANGED returned
    /\ ValidationUnchanged

\* how each check of validations can end on some machine
ValidatorOutcomes ==
    [i \in 1..Len(validations) |->
        {validator(validations[i], env) : env \in Environments}]

\* the next check runs
ValidateOne ==
    /\ validation.at \in 1..Len(validations)
    /\ \E outcome \in ValidatorOutcomes[validation.at] :
           validation' = validate_one(validation, outcome)
    /\ UNCHANGED returned
    /\ ValidationUnchanged

\* the loop is over
ValidateAllEnd ==
    /\ validation.at = Len(validations) + 1
    /\ returned' = <<validate_all_end(validation)>>
    /\ validation' = NoValidation
    /\ ValidationUnchanged

NextValidation ==
    \/ ValidateAll
    \/ ValidateOne
    \/ ValidateAllEnd

SpecValidation == Init /\ [][NextValidation]_vars

(* ------------------------------- claims ------------------------------- *)

\* the recordings of session s
Recs(s) == user_sessions[s]

\* a session has a recording named filename
Holds(session_id, filename) ==
    /\ session_id \in DOMAIN user_sessions
    /\ \E k \in 1..Len(Recs(session_id)) : Recs(session_id)[k].filename = filename

\* C1: no two recordings held by the same session have the same filename.
C1_UniqueFilenames ==
    \A s \in DOMAIN user_sessions :
        \A i, j \in 1..Len(Recs(s)) :
            i # j => Recs(s)[i].filename # Recs(s)[j].filename

\* the request has a session id, its fields and a decodable payload, and the
\* transcription returns at least three non-blank characters
WellFormed(session_id, data, tr) ==
    /\ session_id \in SessionIds
    /\ ~data.empty
    /\ Strip(data.topic) # <<>>
    /\ Strip(data.speech_type) # <<>>
    /\ data.audio_data.kind = "ok"
    /\ ~tr.raises
    /\ tr.text # <<>>
    /\ Len(Strip(tr.text[1])) >= 3

\* the payload decodes to audio of at most five seconds
AtMostMin(data) ==
    /\ data.audio_data.kind = "ok"
    /\ data.audio_data.bytes.len <= 5 * (44100 * 2)

\* the payload decodes to audio one byte above five seconds
OneByteAbove(data) ==
    /\ data.audio_data.kind = "ok"
    /\ data.audio_data.bytes.len = 5 * (44100 * 2) + 1

\* C2 as stated: every submission whose estimated duration is at most 5 s
\* returns the too-short error and leaves the store as it was; one byte
\* above the boundary is not rejected for duration.
C2_AlwaysTooShortError ==
    \A session_id \in Headers, data \in Bodies, tr \in Transcriptions :
        LET r == process_recording(TheStore, session_id, data, tr, now, nextUid)
        IN /\ AtMostMin(data) =>
                /\ r.resp.error = "Speech was too short"
                /\ r.store = TheStore
           /\ OneByteAbove(data) => r.resp.error # "Speech was too short"

\* C2 amended: every submission whose estimated duration is at most 5 s
\* returns an error and leaves the store as it was, and the error is the
\* too-short error when the request is well formed and transcribed; one byte
\* above the boundary is not rejected for duration, and is accepted when the
\* request is well formed and transcribed.
C2_ShortIsRejected ==
    \A session_id \in Headers, data \in Bodies, tr \in Transcriptions :
        LET r == process_recording(TheStore, session_id, data, tr, now, nextUid)
        IN /\ AtMostMin(data) =>
                /\ ~r.resp.success
                /\ r.store = TheStore
                /\ WellFormed(session_id, data, tr) =>
                       r.resp.error = "Speech was too short"
           /\ OneByteAbove(data) =>
                /\ r.resp.error # "Speech was too short"
                /\ WellFormed(session_id, data, tr) => r.resp.success

\* a too-short submission was rejected in a session that holds a recording,
\* whose counter is not zero
C2_Witness ==
    /\ resp.op = "record"
    /\ resp.error = "Speech was too short"
    /\ \E s \in DOMAIN user_sessions : Recs(s) # <<>> /\ session_counters[s] > 0

\* C3: every submit recording call that ends in an error leaves the whole
\* session store unchanged.
C3_ErrorLeavesStore ==
    \A session_id \in Headers, data \in Bodies, tr \in Transcriptions :
        LET r == process_recording(TheStore, session_id, data, tr, now, nextUid)
        IN ~r.resp.success => r.store = TheStore

\* a submission failed at the transcription while a session holds a recording
C3_Witness ==
    /\ resp.op = "record"
    /\ resp.error \in {"Could not transcribe audio", "exception", "Invalid audio data"}
    /\ \E s \in DOMAIN user_sessions : Recs(s) # <<>> /\ session_counters[s] > 0

\* the contents of the chunk events among events, joined in delivery order
RECURSIVE ChunkText(_)
ChunkText(events) ==
    IF events = <<>>
    THEN <<>>
    ELSE (IF Head(events).type = "chunk" THEN Head(events).content ELSE <<>>)
             \o ChunkText(Tail(events))

\* how many events of the type the stream delivered
CountOf(events, type) ==
    Cardinality({k \in 1..Len(events) : events[k].type = type})

\* generator i returns after its complete event in this step
Finishes(i) ==
    /\ i \in 1..Len(streams)
    /\ streams[i].pc = "complete"
    /\ streams'[i].pc = "done"

\* C4: when a stream that emitted its complete event finishes, every
\* recording with its filename in its session has a feedback field equal to
\* the concatenation, in delivery order, of the chunk contents it delivered.
C4_FeedbackIsChunks ==
    [][\A i \in 1..Len(streams) :
          Finishes(i) /\ streams[i].session_id \in DOMAIN user_sessions' =>
              \A k \in 1..Len(user_sessions'[streams[i].session_id]) :
                  LET rec == user_sessions'[streams[i].session_id][k]
                  IN rec.filename = streams[i].filename =>
                         rec.feedback = ChunkText(streams'[i].events)]_vars

\* C5: each recording's feedback field is empty or the full text of a stream
\* for its session and filename that emitted its complete event and
\* finished; the text of a running, failed or abandoned stream is not stored.
C5_NoPartialFeedback ==
    \A s \in DOMAIN user_sessions :
        \A k \in 1..Len(Recs(s)) :
            \/ Recs(s)[k].feedback = <<>>
            \/ \E i \in 1..Len(streams) :
                  /\ streams[i].session_id = s
                  /\ streams[i].filename = Recs(s)[k].filename
                  /\ streams[i].pc = "done"
                  /\ CountOf(streams[i].events, "complete") = 1
                  /\ Recs(s)[k].feedback = ChunkText(streams[i].events)

\* a stream delivered a chunk and then failed or was abandoned, and its
\* recording is still there, without feedback
C5_Witness ==
    \E i \in 1..Len(streams) :
        /\ streams[i].pc \in {"done", "closed"}
        /\ CountOf(streams[i].events, "chunk") >= 1
        /\ streams[i].events[Len(streams[i].events)].type # "complete"
        /\ streams[i].session_id \in DOMAIN user_sessions
        /\ \E k \in 1..Len(Recs(streams[i].session_id)) :
              /\ Recs(streams[i].session_id)[k].filename = streams[i].filename
              /\ Recs(streams[i].session_id)[k].feedback = <<>>

\* C6: a stream for a filename its session does not hold, or for an unknown
\* session, emits exactly one error event and nothing else, makes no
\* chat-completion call, changes no stored state, and is over.
C6_AbsentIsOneError ==
    [][\A i \in 1..Len(streams) :
          /\ streams[i].pc = "new"
          /\ ~Holds(streams[i].session_id, streams[i].filename)
          /\ streams'[i] # streams[i]
          => /\ streams'[i].events = <<ErrorEvent>>
             /\ streams'[i].calls = 0
             /\ streams'[i].pc = "done"
             /\ user_sessions' = user_sessions
             /\ session_counters' = session_counters]_vars

\* a stream for a filename that another session holds and its own session
\* does not ended with its single error event and without a call
C6_Witness ==
    \E i \in 1..Len(streams) :
        /\ streams[i].pc = "done"
        /\ streams[i].events = <<ErrorEvent>>
        /\ streams[i].calls = 0
        /\ streams[i].filename \in KnownFilenames
        /\ ~Holds(streams[i].session_id, streams[i].filename)

\* every event but the last is a chunk event
ChunksThenOne(events) ==
    \A k \in 1..(Len(events) - 1) : events[k].type = "chunk"

\* the event that ends a stream
Terminal(e) == e.type \in {"complete", "error"}

\* C7 as stated: the event sequence of a stream that is over is chunk events
\* followed by exactly one complete event, or it is a single error event.
C7_CompleteOrLoneError ==
    \A i \in 1..Len(streams) :
        streams[i].pc = "done" =>
            \/ /\ streams[i].events # <<>>
               /\ ChunksThenOne(streams[i].events)
               /\ streams[i].events[Len(streams[i].events)].type = "complete"
            \/ streams[i].events = <<ErrorEvent>>

\* C7 amended: the event sequence of a stream is zero or more chunk events
\* followed, once the stream is over, by exactly one terminal event, a
\* complete event or an error event (which may come after chunk events); no
\* event follows the terminal event and no stream carries both kinds.
C7_ChunksThenTerminal ==
    \A i \in 1..Len(streams) :
        LET g == streams[i]
        IN /\ ChunksThenOne(g.events)
           /\ CountOf(g.events, "complete") + CountOf(g.events, "error") <= 1
           /\ g.pc \in {"done", "complete"} =>
                  g.events # <<>> /\ Terminal(g.events[Len(g.events)])
           /\ g.pc = "complete" => g.events[Len(g.events)].type = "complete"
           /\ g.pc \in {"new", "iterating"} =>
                  \A k \in 1..Len(g.events) : g.events[k].type = "chunk"

\* a stream delivered a chunk event and then its error event
C7_Witness ==
    \E i \in 1..Len(streams) :
        /\ streams[i].pc = "done"
        /\ Len(streams[i].events) = 2
        /\ streams[i].events[1].type = "chunk"
        /\ streams[i].events[2].type = "error"

\* the recording that has the identity uid in the next state, as a set
After(s, uid) ==
    IF s \in DOMAIN user_sessions'
    THEN {k \in 1..Len(user_sessions'[s]) : user_sessions'[s][k].uid = uid}
    ELSE {}

\* C8 as stated: once a recording's feedback field is not empty, no
\* operation changes it, a second stream for its session and filename
\* included.
C8_WrittenOnce ==
    [][\A s \in DOMAIN user_sessions :
          \A k \in 1..Len(Recs(s)) :
              Recs(s)[k].feedback # <<>> =>
                  \A j \in After(s, Recs(s)[k].uid) :
                      user_sessions'[s][j].feedback = Recs(s)[k].feedback]_vars

\* C8 amended: a recording's feedback field changes only in the step in which
\* a stream for its session and filename finishes after its complete event,
\* and it becomes the full text of that stream; a later stream for the same
\* session and filename can replace the text an earlier one stored.
C8_WrittenByFinish ==
    [][\A s \in DOMAIN user_sessions :
          \A k \in 1..Len(Recs(s)) :
              \A j \in After(s, Recs(s)[k].uid) :
                  user_sessions'[s][j].feedback # Recs(s)[k].feedback =>
                      \E i \in 1..Len(streams) :
                          /\ Finishes(i)
                          /\ streams[i].session_id = s
                          /\ streams[i].filename = Recs(s)[k].filename
                          /\ user_sessions'[s][j].feedback = ChunkText(streams[i].events)]_vars

\* two streams for one recording finished with different texts while another
\* recording of the session stayed without feedback
C8_Witness ==
    \E i, j \in 1..Len(streams) :
        /\ streams[i].pc = "done" /\ streams[j].pc = "done"
        /\ streams[i].session_id = streams[j].session_id
        /\ streams[i].filename = streams[j].filename
        /\ streams[i].full_feedback # <<>>
        /\ streams[j].full_feedback # <<>>
        /\ streams[i].full_feedback # streams[j].full_feedback
        /\ streams[i].session_id \in DOMAIN user_sessions
        /\ \E k, m \in 1..Len(Recs(streams[i].session_id)) :
              /\ Recs(streams[i].session_id)[k].filename = streams[i].filename
              /\ Recs(streams[i].session_id)[k].feedback = streams[j].full_feedback
              /\ Recs(streams[i].session_id)[m].filename # streams[i].filename
              /\ Recs(streams[i].session_id)[m].feedback = <<>>

\* recs without its first recording named filename
RemoveFirst(recs, filename) ==
    LET hits == {k \in 1..Len(recs) : recs[k].filename = filename}
        first == CHOOSE k \in hits : \A m \in hits : k <= m
    IN IF hits = {}
       THEN recs
       ELSE [k \in 1..(Len(recs) - 1) |-> IF k < first THEN recs[k] ELSE recs[k + 1]]

\* C9: delete recording for a name the session holds returns true, removes
\* the first recording with that name and keeps the others in their order,
\* and the name is no longer listed; for a name the session does not hold, or
\* an unknown session, it returns false and changes nothing.
C9_DeleteRemovesFirst ==
    \A session_id \in CoreHeaders, filename \in Filenames :
        LET r == delete_session_recording(TheStore, session_id, filename)
        IN IF Holds(session_id, filename)
           THEN /\ r.ok
                /\ r.store.user_sessions =
                       [user_sessions EXCEPT
                           ![session_id] = RemoveFirst(@, filename)]
                /\ r.store.session_counters = session_counters
                /\ \A k \in 1..Len(r.store.user_sessions[session_id]) :
                       r.store.user_sessions[session_id][k].filename # filename
           ELSE /\ ~r.ok
                /\ r.store = TheStore

\* the sequence number in the filename of an accepted submission
SequenceNumber(response) == response.result[1].filename[3]

\* C10: clear session on an existing session returns true and leaves it with
\* an empty recording list and a sequence counter of zero, and the next
\* accepted submission of that session carries sequence number 1; on an
\* unknown or missing session id it returns false and creates no state.
C10_ClearResetsNumbering ==
    [][/\ \A session_id \in CoreHeaders :
             LET r == clear_all_session_recordings(TheStore, session_id)
             IN IF session_id \in DOMAIN user_sessions
                THEN /\ r.ok
                     /\ r.store.user_sessions =
                            [user_sessions EXCEPT ![session_id] = <<>>]
                     /\ r.store.session_counters[session_id] = 0
                     /\ \A s \in DOMAIN session_counters \ {session_id} :
                            r.store.session_counters[s] = session_counters[s]
                ELSE /\ ~r.ok
                     /\ r.store = TheStore
       /\ \A s \in SessionIds :
             cleared[s] = "cleared" /\ cleared'[s] = "first" =>
                 /\ resp'.op = "record"
                 /\ resp'.success
                 /\ SequenceNumber(resp') = 1]_vars

\* after an earlier accepted submission, the first submission that followed
\* a clear of its session was accepted under sequence number 1
C10_Witness ==
    \E s \in DOMAIN user_sessions :
        /\ cleared[s] = "first"
        /\ resp.op = "record"
        /\ resp.success
        /\ SequenceNumber(resp) = 1
        /\ Len(Recs(s)) = 1
        /\ Recs(s)[1].uid > 1

\* the sequence counter of session s, a session without one counting as zero
CounterOf(counters, s) == IF s \in DOMAIN counters THEN counters[s] ELSE 0

\* the session an accepted submission was made under
SessionOf(response) == response.result[1].stream_url[1]

\* C11: no operation but a clear or a destroy lowers a session's sequence
\* counter, and each accepted submission raises the counter of its session by
\* exactly one and carries the raised counter as its sequence number, also
\* in a session that the submission itself creates.
C11_CounterCounts ==
    [][\A s \in SessionIds :
          /\ resp'.op \notin {"clear", "cleanup"} =>
                 CounterOf(session_counters', s) >= CounterOf(session_counters, s)
          /\ (nextUid' # nextUid /\ SessionOf(resp') = s) =>
                 /\ CounterOf(session_counters', s) = CounterOf(session_counters, s) + 1
                 /\ SequenceNumber(resp') = CounterOf(session_counters', s)]_vars

\* C12: when submit recording returns a success handle, the session holds a
\* recording with the handle's filename, the handle's non-empty transcription
\* and an empty feedback, and the lookup a stream on the returned stream URL
\* makes next finds that recording.
C12_HandleIsStored ==
    \A session_id \in CoreHeaders, data \in CoreBodies, tr \in CoreTranscriptions :
        LET r == process_recording(TheStore, session_id, data, tr, now, nextUid)
        IN r.resp.success =>
               LET handle == r.resp.result[1]
                   recs == r.store.user_sessions[session_id]
                   found == get_session_recording_data(
                                r.store, handle.stream_url[1], handle.stream_url[2])
               IN /\ handle.transcription # <<>>
                  /\ \E k \in 1..Len(recs) :
                        /\ recs[k].uid = nextUid
                        /\ recs[k].filename = handle.filename
                        /\ recs[k].transcription = handle.transcription
                        /\ recs[k].feedback = <<>>
                  /\ found # <<>>
                  /\ found[1].uid = nextUid

\* the chunk events among events, in their order
ChunkEvents(events) == SelectSeq(events, LAMBDA e : e.type = "chunk")

\* C13: the chunk events of a stream are the upstream deltas that carry
\* content, one event per delta and in the order the upstream call produced
\* them.
C13_ChunksAreDeltas ==
    \A i \in 1..Len(streams) :
        ChunkEvents(streams[i].events) =
            [k \in 1..Len(streams[i].upstream) |-> ChunkEvent(streams[i].upstream[k])]

\* a stream forwarded two different deltas
C13_Witness ==
    \E i \in 1..Len(streams) :
        /\ Len(streams[i].upstream) = 2
        /\ streams[i].upstream[1] # streams[i].upstream[2]
        /\ Len(ChunkEvents(streams[i].events)) = 2

\* C14: a recording that a step keeps has all its fields but feedback
\* unchanged, and its feedback changes only in the step in which a stream for
\* its session and filename completes; submit, list, get and the steps of
\* streams keep every recording, and delete keeps every recording of another
\* name or session as it is.
C14_OnlyStreamWritesFeedback ==
    [][/\ \A s \in DOMAIN user_sessions :
             \A k \in 1..Len(Recs(s)) :
                 /\ \A j \in After(s, Recs(s)[k].uid) :
                        /\ [user_sessions'[s][j] EXCEPT !.feedback = Recs(s)[k].feedback]
                               = Recs(s)[k]
                        /\ user_sessions'[s][j].feedback # Recs(s)[k].feedback =>
                               \E i \in 1..Len(streams) :
                                   /\ Finishes(i)
                                   /\ streams[i].session_id = s
                                   /\ streams[i].filename = Recs(s)[k].filename
                 /\ (resp'.op \in {"record", "list", "get", "new"} \/ streams' # streams)
                        => After(s, Recs(s)[k].uid) # {}
       /\ \A session_id \in StreamHeaders, filename \in Filenames :
             LET r == delete_session_recording(TheStore, session_id, filename)
             IN \A s \in DOMAIN user_sessions :
                    \A k \in 1..Len(Recs(s)) :
                        (s # session_id \/ Recs(s)[k].filename # filename) =>
                            \E j \in 1..Len(r.store.user_sessions[s]) :
                                r.store.user_sessions[s][j] = Recs(s)[k]]_vars

\* a get was answered while the session holds a recording with the feedback
\* of a finished stream and another recording still without feedback
C14_Witness ==
    /\ resp.op = "get"
    /\ resp.success
    /\ \E s \in DOMAIN user_sessions :
          \E k, m \in 1..Len(Recs(s)) :
              /\ Recs(s)[k].feedback # <<>>
              /\ Recs(s)[m].feedback = <<>>
              /\ Recs(s)[m].filename # Recs(s)[k].filename
              /\ \E i \in 1..Len(streams) :
                    /\ streams[i].pc = "done"
                    /\ streams[i].filename = Recs(s)[k].filename

\* C15: the step in which the upstream call of a stream raises, at the call
\* or after chunks were forwarded, emits the one error event of the stream
\* and ends it; the stream has made one upstream call and makes no other,
\* never emitted a complete event, and neither this step nor, having ended,
\* any later one of the stream changes the store.
C15_RaiseIsOneError ==
    [][\A i \in 1..Len(streams) :
          LET g == streams[i]
              h == streams'[i]
          IN /\ g.pc = "done" => h = g
             /\ (h # g /\ h.calls >= 1 /\ CountOf(h.events, "error") > 0) =>
                    /\ g.pc \in {"new", "iterating"}
                    /\ h.pc = "done"
                    /\ h.calls = 1
                    /\ h.events = Append(g.events, ErrorEvent)
                    /\ CountOf(h.events, "error") = 1
                    /\ CountOf(h.events, "complete") = 0
                    /\ user_sessions' = user_sessions
                    /\ session_counters' = session_counters]_vars

\* the upstream raised after a chunk was forwarded, and the recording still
\* has the feedback an earlier stream stored
C15_Witness ==
    \E i \in 1..Len(streams) :
        /\ streams[i].pc = "done"
        /\ streams[i].calls = 1
        /\ Len(streams[i].events) = 2
        /\ streams[i].events[2] = ErrorEvent
        /\ streams[i].full_feedback # <<>>
        /\ streams[i].session_id \in DOMAIN user_sessions
        /\ \E k \in 1..Len(Recs(streams[i].session_id)) :
              /\ Recs(streams[i].session_id)[k].filename = streams[i].filename
              /\ Recs(streams[i].session_id)[k].feedback # <<>>
              /\ Recs(streams[i].session_id)[k].feedback # streams[i].full_feedback

\* sub occurs in s as a run of consecutive elements
Occurs(sub, s) ==
    \E k \in 0..(Len(s) - Len(sub)) : SubSeq(s, k + 1, k + Len(sub)) = sub

\* the prompt of a stream opened on the handle of an accepted submission
PromptAfter(r, language) ==
    LET handle == r.resp.result[1]
        g == StartStream(r.store,
                         NewStream(handle.stream_url[1], handle.stream_url[2], language),
                         FALSE).g
    IN g.prompt

\* C16: the prompt of a stream for a submission flagged is_repeat that names
\* a prior recording of the session has a compare-to-prior-attempt clause
\* with the prior transcript; the prompt for a submission without the flag
\* has no such clause.
C16_RepeatClause ==
    \A session_id \in StreamHeaders, data \in PromptBodies, filename \in KnownFilenames,
       tr \in StreamTranscriptions, language \in PromptLanguages :
        LET prior == get_session_recording_data(TheStore, session_id, filename)
            flagged == process_recording(TheStore, session_id,
                                         AsRepeatOf(data, filename), tr, now, nextUid)
            plain == process_recording(TheStore, session_id, data, tr, now, nextUid)
        IN /\ (prior # <<>> /\ flagged.resp.success) =>
                  /\ PromptAfter(flagged, language) # <<>>
                  /\ PromptAfter(flagged, language)[1].repeat_context # <<>>
                  /\ Occurs(prior[1].transcription,
                            PromptAfter(flagged, language)[1].repeat_context)
           /\ plain.resp.success =>
                  /\ PromptAfter(plain, language) # <<>>
                  /\ PromptAfter(plain, language)[1].repeat_context = <<>>

\* s is made of word, space and hyphen characters only
OnlyAllowed(s) ==
    \A k \in 1..Len(s) : s[k] \in WordChars \cup SpaceChars \cup {"-"}

\* s without its characters that are not word, space or hyphen
Allowed(s) == SelectSeq(s, LAMBDA c : c \in WordChars \cup SpaceChars \cup {"-"})

\* C17: every stored recording has a topic that is not empty, at most 100
\* characters long and made of word, space and hyphen characters only, and a
\* speech category likewise of at most 50 characters; a submission whose
\* topic or category is empty once its disallowed characters are stripped is
\* rejected as a missing field.
C17_SanitisedFields ==
    /\ \A s \in DOMAIN user_sessions :
          \A k \in 1..Len(Recs(s)) :
              /\ Recs(s)[k].topic # <<>>
              /\ Len(Recs(s)[k].topic) <= 100
              /\ OnlyAllowed(Recs(s)[k].topic)
              /\ Recs(s)[k].speech_type # <<>>
              /\ Len(Recs(s)[k].speech_type) <= 50
              /\ OnlyAllowed(Recs(s)[k].speech_type)
    /\ \A session_id \in SessionIds, data \in Bodies \ {NoData}, tr \in Transcriptions :
          (Allowed(data.topic) = <<>> \/ Allowed(data.speech_type) = <<>>) =>
              process_recording(TheStore, session_id, data, tr, now, nextUid).resp.error
                  = "Missing required fields"

\* the language codes the application supports
SupportedCodes ==
    {"en", "es", "fr", "de", "it", "pt", "ru", "ja", "ko", "zh", "ar", "hi", "tr",
     "nl", "bn"}

\* C18: a submission with a language code outside the supported set does
\* what the same submission with 'en' does, its transcription call asking for
\* 'en', and a stream with such a code does what the same stream with 'en'
\* does, its prompt asking for feedback in English.
C18_UnknownLanguageIsEnglish ==
    /\ \A session_id \in StreamHeaders, data \in PromptBodies, tr \in CoreTranscriptions :
          data.language \notin SupportedCodes =>
              LET r == process_recording(TheStore, session_id, data, tr, now, nextUid)
              IN /\ r = process_recording(TheStore, session_id, InLanguage(data, "en"),
                                          tr, now, nextUid)
                 /\ r.transcribed = <<"en">>
    /\ \A i \in 1..Len(streams) :
          streams[i].language \notin SupportedCodes =>
              /\ streams[i].prompt # <<>> => streams[i].prompt[1].language_name = "English"
              /\ streams[i].pc = "new" =>
                     \A createRaises \in BOOLEAN :
                         LET a == StartStream(TheStore, streams[i], createRaises).g
                             b == StartStream(TheStore, [streams[i] EXCEPT !.language = "en"],
                                              createRaises).g
                         IN a = [b EXCEPT !.language = streams[i].language]

\* a stream with an unsupported language code reached its upstream call
\* with a prompt that asks for English
C18_Witness ==
    \E i \in 1..Len(streams) :
        /\ streams[i].language \notin SupportedCodes
        /\ streams[i].pc = "iterating"
        /\ streams[i].events = <<>>
        /\ streams[i].prompt # <<>>
        /\ streams[i].prompt[1].language_name = "English"

\* C19: destroy session removes the recording list and the counter of the
\* identifier, so that then its list of recordings is empty, no name gets a
\* recording, and a stream for any filename emits the not-found error alone;
\* and no step of a stream, the completion of one that outlived its session
\* included, creates a recording list or a counter.
C19_DestroyRemovesAll ==
    [][/\ \A session_id \in SessionIds :
             LET st == cleanup_user_session(TheStore, session_id).store
             IN /\ session_id \notin DOMAIN st.user_sessions
                /\ session_id \notin DOMAIN st.session_counters
                /\ get_session_recordings(st, session_id) = <<>>
                /\ \A filename \in Filenames :
                       /\ get_session_recording_data(st, session_id, filename) = <<>>
                       /\ \A createRaises \in BOOLEAN :
                              LET r == StartStream(st, NewStream(session_id, filename, "en"),
                                                   createRaises)
                              IN /\ r.g.events = <<ErrorEvent>>
                                 /\ r.g.pc = "done"
                                 /\ r.store = st
       /\ streams' # streams =>
              /\ DOMAIN user_sessions' = DOMAIN user_sessions
              /\ DOMAIN session_counters' = DOMAIN session_counters]_vars

\* a stream that found its recording is suspended after its complete event
\* while its session has been destroyed
C19_Witness ==
    \E i \in 1..Len(streams) :
        /\ streams[i].pc = "complete"
        /\ streams[i].found
        /\ streams[i].full_feedback # <<>>
        /\ streams[i].session_id \notin DOMAIN user_sessions
        /\ streams[i].session_id \notin DOMAIN session_counters
        /\ resp.op = "cleanup"

\* the recording list and the counter session s has in the store st
SessionState(st, s) ==
    [recordings |-> IF s \in DOMAIN st.user_sessions
                    THEN <<st.user_sessions[s]>> ELSE <<>>,
     counter |-> IF s \in DOMAIN st.session_counters
                 THEN <<st.session_counters[s]>> ELSE <<>>]

\* a generator for the session and filename about to run to its end
Completing(session_id, filename) ==
    [NewStream(session_id, filename, "en") EXCEPT
        !.pc = "complete", !.found = TRUE, !.calls = 1, !.full_feedback = <<"x">>,
        !.chunk_count = 1, !.upstream = << <<"x">> >>,
        !.events = <<ChunkEvent(<<"x">>), CompleteEvent(1)>>]

\* C20: a submit, delete, clear or destroy addressed to one session, and the
\* completion of a stream of one session, leave the recording list and the
\* sequence counter of every other session as they are.
C20_OtherSessionsUntouched ==
    \A session_id \in SessionIds : \A other \in SessionIds \ {session_id} :
        LET same(st) == SessionState(st, other) = SessionState(TheStore, other)
        IN /\ \A data \in CoreBodies, tr \in CoreTranscriptions :
                  same(process_recording(TheStore, session_id, data, tr, now, nextUid).store)
           /\ \A filename \in Filenames :
                  /\ same(delete_recording(TheStore, session_id, filename).store)
                  /\ same(OnResume(TheStore, Completing(session_id, filename)).store)
           /\ same(clear_all_recordings(TheStore, session_id).store)
           /\ same(cleanup_user_session(TheStore, session_id).store)

\* a recording was deleted in one session while another session holds a
\* recording of the same name
C20_Witness ==
    /\ resp.op = "delete"
    /\ resp.success
    /\ \E s \in DOMAIN user_sessions :
          \E k \in 1..Len(Recs(s)) : Recs(s)[k].filename = resp.result[1].filename

\* C21: create_session, for every identifier uuid4 can draw, answers with
\* that identifier and leaves it with an empty recording list and a counter
\* of zero while every other session stays as it is; and the identifier a
\* create_session step answers with was in neither map before the step.
C21_CreateIsFresh ==
    [][/\ \A session_id \in SessionIds \ (DOMAIN user_sessions \cup DOMAIN session_counters) :
             LET r == create_new_session(TheStore, session_id)
             IN /\ r.resp.success
                /\ r.resp.result = <<[session_id |-> session_id]>>
                /\ session_id \in DOMAIN r.store.user_sessions
                /\ r.store.user_sessions[session_id] = <<>>
                /\ session_id \in DOMAIN r.store.session_counters
                /\ r.store.session_counters[session_id] = 0
                /\ \A other \in SessionIds \ {session_id} :
                       SessionState(r.store, other) = SessionState(TheStore, other)
       /\ (resp'.op = "new" /\ DOMAIN user_sessions' # DOMAIN user_sessions) =>
              /\ resp'.result[1].session_id \notin DOMAIN user_sessions
              /\ resp'.result[1].session_id \notin DOMAIN session_counters
              /\ user_sessions'[resp'.result[1].session_id] = <<>>
              /\ CounterOf(session_counters', resp'.result[1].session_id) = 0
              /\ \A other \in DOMAIN user_sessions :
                     /\ user_sessions'[other] = user_sessions[other]
                     /\ session_counters'[other] = session_counters[other]]_vars

\* a session was created while another session holds a recording
C21_Witness ==
    /\ resp.op = "new"
    /\ resp.success
    /\ resp.result[1].session_id \in DOMAIN user_sessions
    /\ Recs(resp.result[1].session_id) = <<>>
    /\ session_counters[resp.result[1].session_id] = 0
    /\ \E s \in DOMAIN user_sessions : Recs(s) # <<>> /\ session_counters[s] > 0

\* C22: list recordings answers with one entry per recording the session
\* holds, in the order of the list, which is the order of insertion, each
\* entry made of the filename, size, created and modified of its recording
\* and nothing else; for an unknown or missing session id it answers with an
\* empty list; and it never changes the store.
C22_ListIsProjection ==
    /\ \A s \in DOMAIN user_sessions :
          \A k, m \in 1..Len(Recs(s)) : k < m => Recs(s)[k].uid < Recs(s)[m].uid
    /\ \A session_id \in Headers :
          LET r == list_recordings(TheStore, session_id)
              listed == r.resp.result[1].recordings
          IN /\ r.store = TheStore
             /\ r.resp.success
             /\ IF session_id \in DOMAIN user_sessions
                THEN /\ Len(listed) = Len(Recs(session_id))
                     /\ \A k \in 1..Len(listed) :
                            listed[k] = [filename |-> Recs(session_id)[k].filename,
                                         size |-> Recs(session_id)[k].size,
                                         created |-> Recs(session_id)[k].created,
                                         modified |-> Recs(session_id)[k].modified]
                ELSE listed = <<>>

\* a listing of two recordings with different names was returned
C22_Witness ==
    /\ resp.op = "list"
    /\ Len(resp.result[1].recordings) = 2
    /\ resp.result[1].recordings[1].filename # resp.result[1].recordings[2].filename
    /\ \E s \in DOMAIN user_sessions :
          /\ Len(Recs(s)) = 2
          /\ \A k \in 1..2 : Recs(s)[k].filename = resp.result[1].recordings[k].filename

\* C23: the prompt builder takes the short template exactly when the
\* duration is above 5 seconds and below its short threshold, and the full
\* template for every duration at or above the threshold, whatever its other
\* arguments are; and the step of the stream that builds the prompt leaves
\* the store as it was.
C23_TemplateByDuration ==
    /\ \A audio_data \in {AudioEmpty, AudioAtMin, AudioAboveMin, AudioBelowShort, AudioAtShort, AudioLong},
          language \in PromptLanguages, is_repeat \in BOOLEAN,
          topic \in {TopicPlain, TopicPadded}, transcription_text \in {<<>>, <<"h", "e", "y">>} :
          LET nbytes == audio_data.bytes.len
              prompt == build_feedback_prompt(topic, TypeTalk, transcription_text,
                                              Duration(nbytes), language, is_repeat, <<>>)
          IN /\ prompt.template = "short" <=>
                    /\ nbytes > PROMPT_MIN_RECORDING_DURATION * BytesPerSecond
                    /\ nbytes < PROMPT_SHORT_RECORDING_THRESHOLD * BytesPerSecond
             /\ nbytes >= PROMPT_SHORT_RECORDING_THRESHOLD * BytesPerSecond
                    => prompt.template = "full"
    /\ \A session_id \in StreamHeaders, filename \in KnownFilenames, language \in PromptLanguages :
          LET recording == get_session_recording_data(TheStore, session_id, filename)
              r == StartStream(TheStore, NewStream(session_id, filename, language), FALSE)
          IN recording # <<>> =>
                /\ r.store = TheStore
                /\ r.g.prompt # <<>>
                /\ r.g.prompt[1].template = "short" <=>
                       /\ recording[1].audio_data.len > PROMPT_MIN_RECORDING_DURATION * BytesPerSecond
                       /\ recording[1].audio_data.len < PROMPT_SHORT_RECORDING_THRESHOLD * BytesPerSecond

\* one stream built the short prompt for a recording one byte below the
\* threshold, another the full prompt for a recording of exactly the threshold
C23_Witness ==
    \E i, j \in 1..Len(streams) :
        /\ streams[i].prompt # <<>> /\ streams[i].prompt[1].template = "short"
        /\ streams[j].prompt # <<>> /\ streams[j].prompt[1].template = "full"
        /\ \E s \in DOMAIN user_sessions : \E k, m \in 1..Len(Recs(s)) :
              /\ Recs(s)[k].filename = streams[i].filename
              /\ Recs(s)[k].audio_data = AudioBelowShort.bytes
              /\ Recs(s)[m].filename = streams[j].filename
              /\ Recs(s)[m].audio_data = AudioAtShort.bytes
              /\ Recs(s)[k].filename # Recs(s)[m].filename

\* stream i is over: its generator returned, its last event is the only
\* complete or error event it delivered, and if that is a complete event
\* after one chunk or more, the events before it are all chunks and the
\* recording of its session and filename has as feedback the chunk contents
\* in order, which is not empty
Over(i) ==
    LET g == streams[i]
        recording == get_session_recording_data(TheStore, g.session_id, g.filename)
    IN /\ i <= Len(streams)
       /\ g.pc = "done"
       /\ g.events # <<>>
       /\ Terminal(g.events[Len(g.events)])
       /\ CountOf(g.events, "complete") + CountOf(g.events, "error") = 1
       /\ (g.events[Len(g.events)].type = "complete" /\ CountOf(g.events, "chunk") >= 1) =>
              /\ ChunksThenOne(g.events)
              /\ recording # <<>>
              /\ recording[1].feedback = ChunkText(g.events)
              /\ recording[1].feedback # <<>>

\* C24: with an upstream that ends or raises and a client that stays
\* connected, every stream that is opened comes to deliver a complete or an
\* error event and its generator returns; and a stream on a submitted
\* recording whose upstream hands out one delta or more and ends comes to
\* have delivered its chunks and then one complete event, with the stored
\* feedback equal to the chunks' text, which is not empty.
C24_StreamsTerminate ==
    \A i \in 1..MaxStreams :
        /\ (Len(streams) >= i /\ streams[i].pc # "done") ~> Over(i)
        /\ (Len(streams) >= i /\ streams[i].pc = "complete" /\ streams[i].chunk_count >= 1)
               ~> (/\ Over(i)
                   /\ streams[i].events[Len(streams[i].events)].type = "complete"
                   /\ CountOf(streams[i].events, "chunk") >= 1)

\* in a session that was created, a stream on a submitted recording is over
\* after a chunk and a complete event, and the feedback is stored
C24_Witness ==
    /\ "s1" \in DOMAIN session_counters /\ session_counters["s1"] = 1
    /\ \E i \in 1..Len(streams) :
          /\ Over(i)
          /\ streams[i].events = <<ChunkEvent(<<"x">>), CompleteEvent(1)>>
          /\ get_session_recording_data(TheStore, "s1", streams[i].filename)[1].feedback = <<"x">>
          /\ Len(Recs("s1")) = 1

\* C25: ensure_session_exists leaves the recording list and the counter of a
\* session id that has a list, a counter or both as they are, and gives a
\* session id that has neither an empty list and a counter of zero; the
\* stores it is called on are the store between requests and the store
\* save_session_recording gets from process_recording, in which
\* generate_session_filename has counted the submission.
C25_EnsureKeepsState ==
    \A session_id \in SessionIds :
        LET named == generate_session_filename(TheStore, session_id, TopicPlain, now).store
            HasState(st) ==
                session_id \in DOMAIN st.user_sessions \cup DOMAIN st.session_counters
            Kept(st) ==
                SessionState(ensure_session_exists(st, session_id), session_id)
                    = SessionState(st, session_id)
        IN /\ HasState(TheStore) => Kept(TheStore)
           /\ HasState(named) => Kept(named)
           /\ ~HasState(TheStore) =>
                  SessionState(ensure_session_exists(TheStore, session_id), session_id)
                      = [recordings |-> << <<>> >>, counter |-> <<0>>]

\* C26: the total_chunks of a complete event is the number of chunk events
\* its stream delivered before it.
C26_TotalIsChunkCount ==
    \A i \in 1..Len(streams) :
        \A k \in 1..Len(streams[i].events) :
            streams[i].events[k].type = "complete" =>
                streams[i].events[k].total_chunks
                    = CountOf(SubSeq(streams[i].events, 1, k - 1), "chunk")

\* a complete event after two chunks, and one on another stream after none
C26_Witness ==
    \E i, j \in 1..Len(streams) :
        /\ streams[i].events =
               <<ChunkEvent(<<"x">>), ChunkEvent(<<"y">>), CompleteEvent(2)>>
        /\ streams[j].events = <<CompleteEvent(0)>>

\* C27: GET /api/recordings/<filename> answers a name the session holds with
\* the stored audio bytes of the first recording of that name; it answers a
\* name the session does not hold, or a session there is not, with an error
\* response of its own, no exception leaving the handler; and it leaves the
\* store as it is.
C27_AbsentIsHandled ==
    \A session_id \in Headers, filename \in Filenames :
        LET r == get_recording(TheStore, session_id, filename)
            held == session_id \in DOMAIN user_sessions /\ Holds(session_id, filename)
        IN /\ r.store = TheStore
           /\ held =>
                  /\ r.raised = <<>>
                  /\ r.resp.success
                  /\ \E k \in 1..Len(Recs(session_id)) :
                        /\ Recs(session_id)[k].filename = filename
                        /\ \A m \in 1..(k - 1) : Recs(session_id)[m].filename # filename
                        /\ r.resp.result = <<[audio_data |-> Recs(session_id)[k].audio_data]>>
           /\ ~held =>
                  /\ r.raised = <<>>
                  /\ ~r.resp.success

\* C28: an accepted submission stores the decoded audio as it is, so the
\* duration a stream computes from the stored bytes of a recording is the
\* duration that recording was accepted with; every recording in the store
\* has a duration above 5 seconds, and so has every recording a stream
\* builds a prompt for.
C28_SameDuration ==
    /\ \A s \in DOMAIN user_sessions : \A k \in 1..Len(Recs(s)) :
          /\ ~DurationLeq(Duration(Recs(s)[k].audio_data.len), MIN_RECORDING_DURATION)
          /\ Recs(s)[k].audio_data.len = Recs(s)[k].size
    /\ \A session_id \in StreamHeaders, tr \in StreamTranscriptions,
          data \in PromptBodies \cup {Body(TopicPlain, TypeTalk, AudioAtMin)} :
          LET r == process_recording(TheStore, session_id, data, tr, now, nextUid)
              submitted == Duration(data.audio_data.bytes.len)
          IN IF r.resp.success
             THEN /\ ~DurationLeq(submitted, MIN_RECORDING_DURATION)
                  /\ session_id \in DOMAIN r.store.user_sessions
                  /\ \E k \in 1..Len(r.store.user_sessions[session_id]) :
                         /\ r.store.user_sessions[session_id][k].uid = nextUid
                         /\ Duration(r.store.user_sessions[session_id][k].audio_data.len)
                                = submitted
             ELSE /\ DurationLeq(submitted, MIN_RECORDING_DURATION)
                  /\ r.store = TheStore
    /\ \A session_id \in StreamHeaders, filename \in KnownFilenames, language \in PromptLanguages :
          LET recording == get_session_recording_data(TheStore, session_id, filename)
              g == StartStream(TheStore, NewStream(session_id, filename, language), FALSE).g
          IN recording # <<>> =>
                /\ g.prompt # <<>>
                /\ g.prompt[1].seconds = recording[1].size \div BytesPerSecond
                /\ ~DurationLeq(Duration(recording[1].size), PROMPT_MIN_RECORDING_DURATION)

\* a stream built its prompt for a recording one byte longer than 5 seconds
C28_Witness ==
    \E i \in 1..Len(streams) :
        /\ streams[i].prompt # <<>>
        /\ streams[i].prompt[1].seconds = PROMPT_MIN_RECORDING_DURATION
        /\ \E s \in DOMAIN user_sessions : \E k \in 1..Len(Recs(s)) :
              /\ Recs(s)[k].filename = streams[i].filename
              /\ Recs(s)[k].audio_data = AudioAboveMin.bytes

\* C29: the score_type in the handle of an accepted submission names the
\* template the prompt builder of a stream takes for the recording that
\* submission stored.
C29_ScoreTypeIsTemplate ==
    \A session_id \in StreamHeaders, data \in PromptBodies, tr \in StreamTranscriptions,
       language \in PromptLanguages :
        LET r == process_recording(TheStore, session_id, data, tr, now, nextUid)
        IN r.resp.success =>
              \A k \in 1..Len(r.store.user_sessions[session_id]) :
                  LET recording == r.store.user_sessions[session_id][k]
                      prompt == build_feedback_prompt(recording.topic, recording.speech_type,
                                                      recording.transcription,
                                                      Duration(recording.audio_data.len),
                                                      language, FALSE, <<>>)
                  IN recording.uid = nextUid =>
                         r.resp.result[1].score_type = prompt.template

\* C30: the step that yields the complete event of a stream leaves the
\* store as it is, so the feedback has its former value while the event is
\* handed over; the feedback of a recording changes only in the step in
\* which a generator suspended at its complete event is resumed; and a
\* generator closed at a yield, the one of the complete event included,
\* changes nothing in the store, sends no further event, an error event
\* neither, and takes no step afterwards.
C30_WriteAfterComplete ==
    [][/\ \A i \in 1..Len(streams) :
             /\ (streams[i].pc = "iterating" /\ streams'[i].pc = "complete") =>
                    /\ user_sessions' = user_sessions
                    /\ streams'[i].events[Len(streams'[i].events)].type = "complete"
             /\ (streams[i].pc # "closed" /\ streams'[i].pc = "closed") =>
                    /\ user_sessions' = user_sessions
                    /\ streams'[i].events = streams[i].events
                    /\ CountOf(streams'[i].events, "error") = 0
             /\ streams[i].pc = "closed" => streams'[i] = streams[i]
       /\ \A s \in DOMAIN user_sessions : \A k \in 1..Len(Recs(s)) :
             \A j \in After(s, Recs(s)[k].uid) :
                 user_sessions'[s][j].feedback # Recs(s)[k].feedback =>
                     \E i \in 1..Len(streams) :
                         /\ streams[i].pc = "complete" /\ streams'[i].pc = "done"
                         /\ streams[i].session_id = s
                         /\ streams[i].filename = Recs(s)[k].filename
                         /\ user_sessions'[s][j].feedback = streams[i].full_feedback]_vars

\* a generator was closed at the yield of its complete event, after a chunk,
\* and the recording it was opened for is there without feedback
C30_Witness ==
    \E i \in 1..Len(streams) :
        /\ streams[i].pc = "closed"
        /\ streams[i].chunk_count >= 1
        /\ streams[i].events[Len(streams[i].events)].type = "complete"
        /\ get_session_recording_data(TheStore, streams[i].session_id, streams[i].filename) # <<>>
        /\ get_session_recording_data(TheStore, streams[i].session_id,
                                      streams[i].filename)[1].feedback = <<>>

\* request thread i has returned
Returned(i) == threads[i].pc = "done"

\* no destroy request is among the threads
NoDestroy == \A i \in 1..Len(threads) : threads[i].op # "cleanup"

\* C31: two submissions to one session that run at the same time get
\* different sequence numbers (the session was created beforehand and is not
\* destroyed meanwhile, so its counter is never set back).
C31_DistinctNumbers ==
    NoDestroy =>
        \A i, j \in 1..Len(threads) :
            (/\ i # j
             /\ threads[i].op = "record" /\ threads[j].op = "record"
             /\ threads[i].session_id = threads[j].session_id
             /\ threads[i].filename # <<>> /\ threads[j].filename # <<>>)
                => threads[i].filename[3] # threads[j].filename[3]

\* C32: when a submission has returned its handle and a delete of a
\* recording of another name has returned, whatever the order of their
\* steps, the recording of the submission is in the list of the session.
C32_DeleteSparesOthers ==
    NoDestroy =>
        \A b, d \in 1..Len(threads) :
            (/\ threads[b].op = "record" /\ Returned(b) /\ threads[b].response.success
             /\ threads[d].op = "delete" /\ Returned(d)
             /\ threads[d].filename # threads[b].filename)
                => /\ threads[b].session_id \in DOMAIN user_sessions
                   /\ \E k \in 1..Len(Recs(threads[b].session_id)) :
                         Recs(threads[b].session_id)[k].uid = threads[b].uid

\* C33: once a destroy of the session has returned, and as long as every
\* request there is started before that, the session has neither a
\* recording list nor a counter.
C33_DestroyedStaysGone ==
    (Destroyed /\ \A i \in 1..Len(threads) : ~threads[i].after) =>
        RaceSession \notin DOMAIN user_sessions \cup DOMAIN session_counters

\* C34: when no request is in progress, the identifiers with a recording
\* list are the identifiers with a sequence counter.
C34_ListIffCounter ==
    (\A i \in 1..Len(threads) : Returned(i)) =>
        DOMAIN user_sessions = DOMAIN session_counters

\* the records of the history file
History == IF speech_history = <<>> THEN <<>> ELSE speech_history[1]

\* C35: the stored history never holds more than 100 records and holds them
\* in the order they were saved; a save puts the new record last and, past
\* 100 records, drops records from the front; so after saves alone the
\* history is the latest saved records, up to 100 of them, in saving order.
C35_LastHundred ==
    /\ Len(History) <= HISTORY_MAX
    /\ \A k \in 1..(Len(History) - 1) : History[k].id < History[k + 1].id
    /\ LET r == save_speech_history(speech_history,
                                    [id |-> nextUid, recorded_at |-> NoDate], now)
           all == Append(History, [id |-> nextUid, recorded_at |-> Isoformat(now)])
           kept == r.file[1]
       IN /\ r.returned
          /\ Len(kept) = Min(Len(all), HISTORY_MAX)
          /\ \A k \in 1..Len(kept) : kept[k] = all[Len(all) - Len(kept) + k]
    /\ now = 0 =>
          /\ Len(History) = Min(nextUid - 1, HISTORY_MAX)
          /\ \A k \in 1..Len(History) : History[k].id = nextUid - 1 - Len(History) + k

\* 102 records were saved and the history holds the last 100 of them
C35_Witness ==
    /\ now = 0
    /\ nextUid = 103
    /\ Len(History) = HISTORY_MAX
    /\ History[1].id = 3
    /\ History[HISTORY_MAX].id = 102

\* C36: load_speech_history(limit), and get_speech_history(limit) through
\* it, returns the limit latest records of the history, the latest first;
\* with a limit of 0 or None it returns all records of the history.
C36_LatestFirst ==
    \A limit \in Limits :
        LET loaded == load_speech_history(speech_history, limit)
        IN /\ get_speech_history(speech_history, limit) = loaded
           /\ IF limit # <<>> /\ limit[1] # 0
              THEN /\ Len(loaded) = Min(limit[1], Len(History))
                   /\ \A k \in 1..Len(loaded) : loaded[k] = History[Len(History) + 1 - k]
              ELSE /\ Len(loaded) = Len(History)
                   /\ \A k \in 1..Len(History) : \E m \in 1..Len(loaded) : loaded[m] = History[k]

\* C37: after cleanup_old_data the stored history is the history before it
\* without the records whose recorded_at is at or before the cutoff: the
\* records after the cutoff and the records whose date is missing or does
\* not parse are all there, in their order, whatever the length of the
\* history.
C37_RemovesExactlyOld ==
    \A days_old \in DaysOld :
        LET r == cleanup_old_data(speech_history, days_old, now)
            cutoff_date == now - days_old * SECONDS_PER_DAY
            after == IF r.file = <<>> THEN <<>> ELSE r.file[1]
        IN /\ r.returned
           /\ after = SelectSeq(History, LAMBDA record : KeptByCleanup(record, cutoff_date))

\* every capture thread the recorder has started has been joined
AllJoined ==
    /\ Len(recorder.capture) > 0
    /\ \A i \in 1..Len(recorder.capture) : recorder.capture[i].joined

\* C38: a start_recording while a recording is in progress returns a
\* failure and leaves the flag and the captured data as they were; a
\* stop_recording while nothing is being recorded returns a failure and
\* changes nothing; and once the flag is cleared and the capture threads
\* have been joined, no step appends a chunk to the captured data.
C38_RecorderGuards ==
    [][/\ (StartRecording /\ recorder.recording) =>
              /\ ~returned'[1].success
              /\ recorder'.recording = recorder.recording
              /\ recorder'.recorded_data = recorder.recorded_data
       /\ (StopRecording /\ ~recorder.recording) =>
              /\ returned' # <<>>
              /\ ~returned'[1].success
              /\ recorder' = recorder
       /\ (~recorder.recording /\ AllJoined) =>
              Len(recorder'.recorded_data) <= Len(recorder.recorded_data)]_vars

\* a recording was started, stopped and its capture thread joined with
\* chunks captured, and a further stop_recording was refused
C38_Witness ==
    /\ ~recorder.recording
    /\ AllJoined
    /\ recorder.recorded_data # <<>>
    /\ returned # <<>>
    /\ returned[1].op = "stop_recording"
    /\ returned[1].message = "No recording in progress"

\* validate_all has returned or raised
Validated == returned # <<>> /\ returned[1].op = "validate_all"

\* check i of validations is one whose failure is critical
Critical(i) == validations[i] \in CriticalNames

\* C39: validate_all runs all five checks; it raises ConfigurationError
\* exactly when the File System, the Audio System or the OpenAI API check
\* has failed; and when it returns, the entry of every check in the result
\* map tells whether the check passed.
C39_RaisesIffCriticalFailed ==
    Validated =>
        LET r == returned[1]
        IN /\ Len(r.outcomes) = Len(validations)
           /\ r.raised <=>
                  \E i \in 1..Len(r.outcomes) : Critical(i) /\ r.outcomes[i] # "True"
           /\ ~r.raised =>
                  /\ DOMAIN r.results = {validations[i] : i \in 1..Len(validations)}
                  /\ \A i \in 1..Len(r.outcomes) :
                         r.results[validations[i]] = (r.outcomes[i] = "True")

====
